---- MODULE Spec2Model ----
(***************************************************************************)
(* Line classification and multi-line transaction assembly of the Itau     *)
(* statement parsers: enhanced_codex.parse_txt and main, and               *)
(* lab2/itau_parser_ultimate.TransactionExtractor.extract_transactions;    *)
(* script.parse_statement; and the pure helpers classify, decomma, clean   *)
(* and norm_date of enhanced_codex and script.                             *)
(*                                                                         *)
(* Text is modelled as a sequence of one-character strings, so that the    *)
(* regular expressions, decomma, clean and the keyword tests are computed  *)
(* on characters as the Python code computes them.  Amounts are integers   *)
(* in cents (Decimal quantized to 0.01), conversion rates are integers in  *)
(* 1/10000, a normalised date "YYYY-MM-DD" is the tuple <<y, m, d>> and    *)
(* the empty string is <<>>.  An optional integer (None or a number) is    *)
(* <<>> or <<n>>.  sha1 is modelled by its input tuple.                    *)
(***************************************************************************)
EXTENDS Integers, Sequences, FiniteSets, TLC

(***************************************************************************)
(* The state of enhanced_codex.py's parse_txt and main, for one statement. *)
(***************************************************************************)
VARIABLES
  lines,          \* the statement's lines, as read from the file
  ref_y, ref_m,   \* the reference year and month main passes
  pc,             \* "loop": in the while loop; "parsed": parse_txt returned;
                  \* "written": main wrote the CSV; "idle": not running
  i,              \* the cursor, 0-based
  card, rows, iof_postings, last_date, pagamento_seq, seen_fx, stats,
  prov, iof_prov, \* history: the line (0-based) each row / IOF posting came from
  dupes, csv      \* main: the duplicate count and the rows written

codex_vars == <<lines, ref_y, ref_m, pc, i, card, rows, iof_postings, last_date,
                pagamento_seq, seen_fx, stats, prov, iof_prov, dupes, csv>>

(***************************************************************************)
(* The state of one call of itau_parser_ultimate's                         *)
(* TransactionExtractor.extract_transactions.                              *)
(***************************************************************************)
VARIABLES
  u_lines,          \* the argument: the lines
  u_now,            \* datetime.now(), as <<year, month, day>>
  u_pc,             \* "loop": in the while loop; "done": returned; "idle": not running
  u_i,              \* the cursor i, 0-based
  u_card_mapping,   \* card_mapping, a sequence: entry k + 1 is the card of line k
  u_payment_count, u_seen_fx, u_transactions,
  u_prov            \* history: the line (0-based) each transaction came from

ultimate_vars == <<u_lines, u_now, u_pc, u_i, u_card_mapping, u_payment_count,
                   u_seen_fx, u_transactions, u_prov>>

(***************************************************************************)
(* The state of one call of script.py's parse_statement.                   *)
(***************************************************************************)
VARIABLES
  s_lines,          \* lines: what load_lines returned
  s_ref_year,       \* ref_year, from the name of the file
  s_pc,             \* "loop": in the while loop; "done": returned; "idle": not running
  s_i,              \* the cursor i, 0-based
  s_card_last4, s_pagamento_idx, s_txs,
  s_prov            \* history: the line (0-based) each transaction came from

script_vars == <<s_lines, s_ref_year, s_pc, s_i, s_card_last4, s_pagamento_idx, s_txs, s_prov>>

(***************************************************************************)
(* enhanced_codex.main across statements, and a second activation of       *)
(* parse_txt: every variable above is a local of parse_txt or of one turn  *)
(* of main's loop over the files, so a second statement has its own.       *)
(***************************************************************************)
VARIABLES
  total,            \* main's Counter total: the sum of the stats of the statements
  phase,            \* "single": one statement; "alone": the first statement, by
                    \* itself; "pair": the first statement again, with a second one
  alone,            \* history: what the first statement gave when parsed alone
  parked            \* the locals of the activation that is not running, or <<>>

main_vars == <<total, phase, alone, parked>>

(***************************************************************************)
(* One call of a pure helper: classify, decomma or norm_date.              *)
(***************************************************************************)
VARIABLES
  f_name,           \* the function called, "" when none is
  f_args,           \* its arguments
  f_ret             \* <<>> before it returns, <<value>> after

call_vars == <<f_name, f_args, f_ret>>

vars == <<codex_vars, main_vars, ultimate_vars, script_vars, call_vars>>

\* the parser is not running
CodexIdle ==
  /\ lines = <<>> /\ ref_y = 0 /\ ref_m = 0 /\ pc = "idle" /\ i = 0
  /\ card = <<>> /\ rows = <<>> /\ iof_postings = <<>> /\ last_date = <<>>
  /\ pagamento_seq = 0 /\ seen_fx = {} /\ stats = <<>>
  /\ prov = <<>> /\ iof_prov = <<>> /\ dupes = 0 /\ csv = <<>>
MainIdle == total = <<>> /\ phase = "idle" /\ alone = <<>> /\ parked = <<>>
CallIdle == f_name = "" /\ f_args = <<>> /\ f_ret = <<>>
ScriptIdle ==
  /\ s_lines = <<>> /\ s_ref_year = 0 /\ s_pc = "idle" /\ s_i = 0
  /\ s_card_last4 = <<>> /\ s_pagamento_idx = 0 /\ s_txs = <<>> /\ s_prov = <<>>
UltimateIdle ==
  /\ u_lines = <<>> /\ u_now = <<>> /\ u_pc = "idle" /\ u_i = 0
  /\ u_card_mapping = <<>> /\ u_payment_count = 0 /\ u_seen_fx = {}
  /\ u_transactions = <<>> /\ u_prov = <<>>


(***************************************************************************)
(* Characters and strings                                                  *)
(***************************************************************************)
Digit == {"0","1","2","3","4","5","6","7","8","9"}
\* int() of one digit
DigitVal(c) ==
  CASE c = "0" -> 0 [] c = "1" -> 1 [] c = "2" -> 2 [] c = "3" -> 3 [] c = "4" -> 4
    [] c = "5" -> 5 [] c = "6" -> 6 [] c = "7" -> 7 [] c = "8" -> 8 [] c = "9" -> 9
\* the white space of \s and of str.strip()
Space == {" ", "\t"}
\* One code point of the Unicode Private Use Area U+E000..U+F8FF.
PUA == "<PUA>"
\* The bullet U+2022 of LEAD_SYM.
BULLET == "<BULLET>"

LowerLetters == <<"a","b","c","d","e","f","g","h","i","j","k","l","m","n","o","p","q","r","s","t","u","v","w","x","y","z","ã","ç","é","ó","ú","í">>
UpperLetters == <<"A","B","C","D","E","F","G","H","I","J","K","L","M","N","O","P","Q","R","S","T","U","V","W","X","Y","Z","Ã","Ç","É","Ó","Ú","Í">>
\* [A-Z]
UpperAscii == {UpperLetters[k] : k \in 1..26}
\* the position of c in the letters ls, or 0
LetterNo(ls, c) == IF \E k \in DOMAIN ls : ls[k] = c THEN CHOOSE k \in DOMAIN ls : ls[k] = c ELSE 0
CaseOf(to, no, c) == IF no = 0 THEN c ELSE to[no]
ToUpper(c) == CaseOf(UpperLetters, LetterNo(LowerLetters, c), c)
ToLower(c) == CaseOf(LowerLetters, LetterNo(UpperLetters, c), c)
IsLetter(c) == \E k \in DOMAIN LowerLetters : c = LowerLetters[k] \/ c = UpperLetters[k]
\* str.upper(), str.lower()
upper(s) == [k \in 1..Len(s) |-> ToUpper(s[k])]
lower(s) == [k \in 1..Len(s) |-> ToLower(s[k])]
\* str.title(): a letter is upper-cased after a non-letter and lower-cased after a letter
title(s) ==
  [k \in 1..Len(s) |-> IF k > 1 /\ IsLetter(s[k - 1]) THEN ToLower(s[k]) ELSE ToUpper(s[k])]

\* p occurs in s at position ix
HasAt(s, ix, p) ==
  /\ ix >= 1
  /\ ix + Len(p) - 1 <= Len(s)
  /\ SubSeq(s, ix, ix + Len(p) - 1) = p
\* Python's "p in s"
Contains(s, p) == \E ix \in 1..(Len(s) + 1) : HasAt(s, ix, p)
\* length of the maximal run of characters of class cls that starts at ix
RECURSIVE RunLen(_, _, _)
RunLen(s, ix, cls) ==
  IF ix >= 1 /\ ix <= Len(s) /\ s[ix] \in cls THEN 1 + RunLen(s, ix + 1, cls) ELSE 0
\* length of the maximal run of characters of class cls that ends at ix
RECURSIVE RunLenBack(_, _, _)
RunLenBack(s, ix, cls) ==
  IF ix >= 1 /\ ix <= Len(s) /\ s[ix] \in cls THEN 1 + RunLenBack(s, ix - 1, cls) ELSE 0
\* str.lstrip(cls), str.rstrip(cls), str.strip()
lstrip(s, cls) == SubSeq(s, RunLen(s, 1, cls) + 1, Len(s))
rstrip(s, cls) == SubSeq(s, 1, Len(s) - RunLenBack(s, Len(s), cls))
strip(s) == rstrip(lstrip(s, Space), Space)
\* str.replace(a, b) for single characters
replace(s, a, b) == [k \in 1..Len(s) |-> IF s[k] = a THEN b ELSE s[k]]
\* the characters of s that are in cls
Only(s, cls) == SelectSeq(s, LAMBDA c : c \in cls)
MaxOf(S) == CHOOSE a \in S : \A b \in S : b <= a
Min(S) == CHOOSE a \in S : \A b \in S : a <= b
Abs(n) == IF n < 0 THEN 0 - n ELSE n
\* int() of a string of digits
RECURSIVE ToInt(_)
ToInt(ds) ==
  IF ds = <<>> THEN 0 ELSE 10 * ToInt(SubSeq(ds, 1, Len(ds) - 1)) + DigitVal(ds[Len(ds)])

(***************************************************************************)
(* Python's re: a regular expression is a tree, and matching is the        *)
(* backtracking search of the re module: alternatives in order, greedy     *)
(* repetitions longest first, lazy repetitions shortest first, the first   *)
(* complete match wins.  A match is [ok |-> TRUE, end, and one field per    *)
(* group that took part]; for search, group 0 is the field g0.             *)
(***************************************************************************)
NoMatch == [ok |-> FALSE]
\* the bound {m,} and * and + stand for; no line is that long
Inf == 99
Chr(S) == [t |-> "chr", set |-> S]          \* [...]
NotChr(S) == [t |-> "not", set |-> S]       \* [^...]
Dot == [t |-> "dot"]                        \* .
Bol == [t |-> "bol"]                        \* ^
Eol == [t |-> "eol"]                        \* $
Cat(rs) == [t |-> "cat", rs |-> rs]         \* r1 r2 ...
Alt(rs) == [t |-> "alt", rs |-> rs]         \* r1|r2|...
Rep(r, lo, hi) == [t |-> "rep", r |-> r, lo |-> lo, hi |-> hi, lazy |-> FALSE]   \* r{lo,hi}
Lazy(r, lo, hi) == [t |-> "rep", r |-> r, lo |-> lo, hi |-> hi, lazy |-> TRUE]   \* r{lo,hi}?
Grp(g, r) == [t |-> "grp", g |-> g, r |-> r]                                     \* (?P<g>r)
Lit(p) == [t |-> "lit", cs |-> [k \in 1..Len(p) |-> {p[k]}]]                     \* literal text
Opt(r) == Rep(r, 0, 1)                      \* r?
Star(r) == Rep(r, 0, Inf)                   \* r*
Plus(r) == Rep(r, 1, Inf)                   \* r+
re_d == Chr(Digit)                           \* \d
re_s == Chr(Space)                          \* \s
\* re.I
BothCases(S) == S \cup {ToUpper(c) : c \in S} \cup {ToLower(c) : c \in S}
RECURSIVE IgnoreCase(_)
IgnoreCase(r) ==
  CASE r.t \in {"chr", "not"} -> [r EXCEPT !.set = BothCases(r.set)]
    [] r.t = "lit" -> [r EXCEPT !.cs = [k \in DOMAIN r.cs |-> BothCases(r.cs[k])]]
    [] r.t \in {"cat", "alt"} -> [r EXCEPT !.rs = [k \in DOMAIN r.rs |-> IgnoreCase(r.rs[k])]]
    [] r.t \in {"rep", "grp"} -> [r EXCEPT !.r = IgnoreCase(r.r)]
    [] OTHER -> r

OrElse(a, b) == IF a.ok THEN a ELSE b
\* one repetition taken
Less(r) == [r EXCEPT !.lo = IF r.lo > 0 THEN r.lo - 1 ELSE 0, !.hi = r.hi - 1]
\* r is one character wide
Single(r) == r.t \in {"chr", "not", "dot"}
\* the one-character expression r matches at position pos of s
Fits(r, s, pos) ==
  /\ pos <= Len(s)
  /\ CASE r.t = "chr" -> s[pos] \in r.set
       [] r.t = "not" -> s[pos] \notin r.set
       [] r.t = "dot" -> TRUE
\* how many characters from pos on, at most lim, the one-character expression r matches
RunOf(r, s, pos, lim) ==
  CHOOSE k \in 0..lim : /\ \A j \in 0..(k - 1) : Fits(r, s, pos + j)
                        /\ k = lim \/ ~Fits(r, s, pos + k)
\* of the attempts <<k, match>> the successful one the search reaches first:
\* the least k when lazy, the greatest when greedy
Preferred(won, lazy) ==
  IF won = {} THEN NoMatch
  ELSE (CHOOSE p \in won : \A q \in won : IF lazy THEN p[1] <= q[1] ELSE p[1] >= q[1])[2]
Won(tries) == {p \in tries : p[2].ok}
\* the match of the expressions todo, in sequence, from position pos of s
RECURSIVE M(_, _, _, _)
\* a repetition of a one-character expression: k characters, then the rest
Tries(s, rest, pos, caps, ks) == {<<k, M(s, rest, pos + k, caps)>> : k \in ks}
M(s, todo, pos, caps) ==
  IF todo = <<>> THEN ("ok" :> TRUE) @@ ("end" :> pos) @@ caps
  ELSE CASE Single(todo[1]) ->
              IF Fits(todo[1], s, pos) THEN M(s, Tail(todo), pos + 1, caps) ELSE NoMatch
         [] todo[1].t = "lit" ->
              IF /\ pos + Len(todo[1].cs) - 1 <= Len(s)
                 /\ \A k \in DOMAIN todo[1].cs : s[pos + k - 1] \in todo[1].cs[k]
              THEN M(s, Tail(todo), pos + Len(todo[1].cs), caps) ELSE NoMatch
         [] todo[1].t = "bol" ->
              IF pos = 1 THEN M(s, Tail(todo), pos, caps) ELSE NoMatch
         [] todo[1].t = "eol" ->
              IF pos = Len(s) + 1 THEN M(s, Tail(todo), pos, caps) ELSE NoMatch
         [] todo[1].t = "cat" -> M(s, todo[1].rs \o Tail(todo), pos, caps)
         [] todo[1].t = "alt" ->
              IF todo[1].rs = <<>> THEN NoMatch
              ELSE OrElse(M(s, <<Head(todo[1].rs)>> \o Tail(todo), pos, caps),
                          M(s, <<Alt(Tail(todo[1].rs))>> \o Tail(todo), pos, caps))
         [] todo[1].t = "rep" /\ Single(todo[1].r) ->
              Preferred(Won(Tries(s, Tail(todo), pos, caps,
                                  todo[1].lo..RunOf(todo[1].r, s, pos,
                                                    Min({todo[1].hi, Len(s) - pos + 1})))),
                        todo[1].lazy)
         [] todo[1].t = "rep" /\ ~Single(todo[1].r) ->
              IF todo[1].lo > 0
              THEN M(s, <<todo[1].r, Less(todo[1])>> \o Tail(todo), pos, caps)
              ELSE IF todo[1].hi = 0 THEN M(s, Tail(todo), pos, caps)
              ELSE IF todo[1].lazy
              THEN OrElse(M(s, Tail(todo), pos, caps),
                          M(s, <<todo[1].r, Less(todo[1])>> \o Tail(todo), pos, caps))
              ELSE OrElse(M(s, <<todo[1].r, Less(todo[1])>> \o Tail(todo), pos, caps),
                          M(s, Tail(todo), pos, caps))
         [] todo[1].t = "grp" ->
              M(s, <<todo[1].r, [t |-> "end", g |-> todo[1].g, from |-> pos]>> \o Tail(todo),
                pos, caps)
         [] todo[1].t = "end" ->
              M(s, Tail(todo), pos, (todo[1].g :> SubSeq(s, todo[1].from, pos - 1)) @@ caps)
NoCaps == [g \in {} |-> <<>>]
\* Pattern.match(s)
match(re, s) == M(s, <<re>>, 1, NoCaps)
\* the leftmost match that starts at pos or later
SearchFrom(re, s, pos) ==
  Preferred(Won({<<k, M(s, <<Grp("g0", re)>>, k, NoCaps)>> : k \in pos..(Len(s) + 1)}), TRUE)
\* Pattern.search(s)
search(re, s) == SearchFrom(re, s, 1)
\* Match.group(g) when it may not have taken part: None is <<>>
group(m, g) == IF g \in DOMAIN m THEN m[g] ELSE <<>>
\* re.sub(re, repl, s), for an expression that matches no empty string
RECURSIVE SubFrom(_, _, _, _)
SubPut(re, repl, s, pos, m) ==
  IF m.ok THEN SubSeq(s, pos, m.end - Len(m.g0) - 1) \o repl \o SubFrom(re, repl, s, m.end)
  ELSE SubSeq(s, pos, Len(s))
SubFrom(re, repl, s, pos) == SubPut(re, repl, s, pos, SearchFrom(re, s, pos))
sub(re, repl, s) == SubFrom(re, repl, s, 1)

(***************************************************************************)
(* enhanced_codex.py: the regular expressions                              *)
(***************************************************************************)
\* \d{1,3}/\d{1,2}(?:/\d{4})?
PayDate == Cat(<<Rep(re_d, 1, 3), Lit(<<"/">>), Rep(re_d, 1, 2),
                 Opt(Cat(<<Lit(<<"/">>), Rep(re_d, 4, 4)>>))>>)
\* -?\d{1,3}(?:\.\d{3})*,\d{2}
Money == Cat(<<Opt(Lit(<<"-">>)), Rep(re_d, 1, 3), Star(Cat(<<Lit(<<".">>), Rep(re_d, 3, 3)>>)),
               Lit(<<",">>), Rep(re_d, 2, 2)>>)
\* [\d.,]+
Number == Plus(Chr(Digit \cup {".", ","}))

RE_DATE == Cat(<<Grp("d", Rep(re_d, 1, 3)), Lit(<<"/">>), Grp("m", Rep(re_d, 1, 2)),
                 Opt(Cat(<<Lit(<<"/">>), Grp("y", Rep(re_d, 4, 4))>>))>>)
RE_BRL == Cat(<<Opt(Lit(<<"-">>)), Star(re_s), Rep(re_d, 1, 3),
                Star(Cat(<<Lit(<<".">>), Rep(re_d, 3, 3)>>)), Lit(<<",">>), Rep(re_d, 2, 2)>>)
RE_PAY_LINE ==
  IgnoreCase(Cat(<<Bol, Grp("date", PayDate), Plus(re_s), Lit(<<"P","A","G","A","M","E","N","T","O">>),
                   Opt(Grp("g2", Cat(<<Plus(re_s), Lit(<<"E","F","E","T","U","A","D","O">>)>>))),
                   Plus(re_s), Lit(<<"7","1","1","7">>), Star(re_s), Plus(Chr({"-", "\t", " "})),
                   Grp("amt", Cat(<<Lit(<<"-">>), Star(re_s), Number>>)), Star(re_s), Eol>>))
RE_PAY_LINE_ANY ==
  IgnoreCase(Cat(<<Bol, Grp("date", PayDate), Plus(re_s), Lit(<<"P","A","G","A","M","E","N","T","O">>),
                   Lazy(Dot, 0, Inf),
                   Grp("amt", Cat(<<Opt(Lit(<<"-">>)), Star(re_s), Number>>)), Star(re_s), Eol>>))
RE_FX_MAIN ==
  Cat(<<Bol, Grp("date", Cat(<<Rep(re_d, 2, 2), Lit(<<"/">>), Rep(re_d, 2, 2)>>)), Plus(re_s),
        Grp("descr", Lazy(Dot, 1, Inf)), Plus(re_s), Grp("orig", Money), Plus(re_s),
        Grp("brl", Money), Eol>>)
RE_DOLAR ==
  Cat(<<Bol, Lit(<<"D">>), Chr({"ó", "o"}), Lit(<<"l","a","r"," ","d","e"," ","C","o","n","v","e","r","s">>), Chr({"ã", "a"}), Lit(<<"o">>),
        Lazy(Dot, 0, Inf), Grp("g1", Cat(<<Plus(re_d), Lit(<<",">>), Rep(re_d, 4, 4)>>))>>)
RE_DOM ==
  Cat(<<Bol, Grp("date", Cat(<<Rep(re_d, 1, 3), Lit(<<"/">>), Rep(re_d, 1, 2)>>)), Plus(re_s),
        Grp("desc", Lazy(Dot, 1, Inf)), Plus(re_s),
        Grp("amt", Plus(Chr(Digit \cup {"-", ".", ","}))), Eol>>)
RE_CARD == Cat(<<Lit(<<"f","i","n","a","l"," ">>), Grp("g1", Rep(re_d, 4, 4))>>)
RE_INST == Cat(<<Grp("g1", Rep(re_d, 1, 2)), Lit(<<"/">>), Grp("g2", Rep(re_d, 1, 2))>>)
RE_INST_TXT ==
  Cat(<<Lit(<<"+">>), Star(re_s), Grp("g1", Plus(re_d)), Star(re_s), Lit(<<"x">>), Star(re_s),
        Lit(<<"R","$">>)>>)
RE_IOF_LINE == IgnoreCase(Lit(<<"R","e","p","a","s","s","e"," ","d","e"," ","I","O","F">>))
RE_DROP_HDR ==
  IgnoreCase(Cat(<<Bol, Grp("g1", Alt(<<
    Lit(<<"T","o","t","a","l"," ">>), Lit(<<"L","a","n","ç","a","m","e","n","t","o","s">>), Lit(<<"L","i","m","i","t","e","s">>), Lit(<<"E","n","c","a","r","g","o","s">>),
    Lit(<<"P","r","ó","x","i","m","a"," ","f","a","t","u","r","a">>), Lit(<<"D","e","m","a","i","s"," ","f","a","t","u","r","a","s">>), Lit(<<"P","a","r","c","e","l","a","m","e","n","t","o"," ","d","a"," ","f","a","t","u","r","a">>),
    Lit(<<"S","i","m","u","l","a","ç","ã","o">>), Lit(<<"P","o","n","t","o","s">>), Lit(<<"C","a","s","h","b","a","c","k">>), Lit(<<"O","u","t","r","o","s"," ","l","a","n","ç","a","m","e","n","t","o","s">>),
    Lit(<<"L","i","m","i","t","e"," ","t","o","t","a","l"," ","d","e"," ","c","r","é","d","i","t","o">>), Lit(<<"F","a","t","u","r","a"," ","a","n","t","e","r","i","o","r">>), Lit(<<"S","a","l","d","o"," ","f","i","n","a","n","c","i","a","d","o">>),
    Lit(<<"P","r","o","d","u","t","o","s"," ","e"," ","s","e","r","v","i","ç","o","s">>), Lit(<<"T","a","r","i","f","a">>),
    Lit(<<"C","o","m","p","r","a","s"," ","p","a","r","c","e","l","a","d","a","s"," ","-"," ","p","r","ó","x","i","m","a","s"," ","f","a","t","u","r","a","s">>)>>))>>))
\* parse_txt's re_parc
re_parc ==
  IgnoreCase(Alt(<<
    Cat(<<Grp("g1", Rep(re_d, 1, 2)), Star(re_s), Lit(<<"/">>), Star(re_s), Grp("g2", Rep(re_d, 1, 2))>>),
    Cat(<<Grp("g3", Rep(re_d, 1, 2)), Star(re_s), Lit(<<"x">>), Star(re_s), Lit(<<"R","$">>)>>),
    Cat(<<Grp("g4", Rep(re_d, 1, 2)), Star(re_s), Lit(<<"d","e">>), Star(re_s), Grp("g5", Rep(re_d, 1, 2))>>)>>))
\* Match.lastindex: the number of the last group that took part
lastindex(m) == MaxOf({k \in 0..5 : k = 0 \/ <<"g1", "g2", "g3", "g4", "g5">>[k] \in DOMAIN m})

(***************************************************************************)
(* enhanced_codex.py: utility functions                                    *)
(***************************************************************************)
\* the strings Decimal() accepts among those made of digits, "." and "-"
DECIMAL ==
  Cat(<<Grp("sign", Opt(Lit(<<"-">>))),
        Alt(<<Cat(<<Grp("int", Plus(re_d)), Opt(Cat(<<Lit(<<".">>), Grp("frac", Star(re_d))>>))>>),
              Cat(<<Lit(<<".">>), Grp("frac", Plus(re_d))>>)>>),
        Eol>>)
\* quantize(Decimal("0.01"), ROUND_HALF_UP) of int.frac, in cents; frac is padded
HalfUpCents(int, frac) ==
  100 * ToInt(int) + 10 * DigitVal(frac[1]) + DigitVal(frac[2])
    + (IF DigitVal(frac[3]) >= 5 THEN 1 ELSE 0)
Signed(sign, n) == IF sign = <<>> THEN n ELSE 0 - n
\* the cents of a match of DECIMAL; 0.00 when Decimal() raises
CentsOf(m) ==
  IF m.ok THEN Signed(m.sign, HalfUpCents(group(m, "int"), group(m, "frac") \o <<"0","0","0">>))
  ELSE 0
\* a decomma that keeps the thousands dots (".replace('.', '')" left out, "." kept by the
\* substitution): the variant the round trip of amounts is checked against
DecommaKeepingDots(x) ==
  IF x = <<>> \/ strip(x) = <<>> THEN 0
  ELSE CentsOf(match(DECIMAL, replace(Only(x, Digit \cup {",", "-", "."}), ",", ".")))
\* decomma:
\* re.sub(r"[^\d,\-]", "", x.replace(" ", "")).replace(".", "").replace(",", ".")
decomma(x) ==
  IF x = <<>> \/ strip(x) = <<>> THEN 0
  ELSE CentsOf(match(DECIMAL, replace(Only(x, Digit \cup {",", "-"}), ",", ".")))

\* norm_date, after m = RE_DATE.match(date)
NormDate(date, m, ry) ==
  IF ~m.ok THEN date
  ELSE <<IF group(m, "y") = <<>> THEN ry ELSE ToInt(group(m, "y")), ToInt(m.m), ToInt(m.d)>>
\* norm_date: "" for no date, else f"{int(y):04}-{int(mth):02}-{int(d):02}" with the
\* reference year when the text has none
norm_date(date, ry, rm) ==
  IF date = <<>> THEN <<>> ELSE NormDate(date, match(RE_DATE, date), ry)

\* sha1 of f"{card}|{date}|{desc}|{valor_brl}|{installment_tot}|{categoria_high}"
sha1(card_no, date, desc, valor_brl, installment_tot, categoria_high) ==
  <<card_no, date, desc, valor_brl, installment_tot, categoria_high>>

\* the adjustment threshold Decimal("0.30"), in cents
AJUSTE_MAX == 30
mapping == <<
  <<<<"A","C","E","L","E","R","A","D","O","R">>, "SERVIÇOS">>, <<<<"P","O","N","T","O","S">>, "SERVIÇOS">>, <<<<"A","N","U","I","D","A","D","E">>, "SERVIÇOS">>,
  <<<<"S","E","G","U","R","O">>, "SERVIÇOS">>, <<<<"T","A","R","I","F","A">>, "SERVIÇOS">>, <<<<"P","R","O","D","U","T","O">>, "SERVIÇOS">>,
  <<<<"S","E","R","V","I","Ç","O">>, "SERVIÇOS">>,
  <<<<"S","U","P","E","R","M","E","R","C">>, "SUPERMERCADO">>, <<<<"M","E","R","C","A","D","O">>, "SUPERMERCADO">>,
  <<<<"F","A","R","M","A","C">>, "FARMÁCIA">>, <<<<"D","R","O","G">>, "FARMÁCIA">>, <<<<"P","A","N","V","E","L">>, "FARMÁCIA">>,
  <<<<"R","E","S","T","A","U","R">>, "RESTAURANTE">>, <<<<"P","I","Z","Z">>, "RESTAURANTE">>, <<<<"B","A","R">>, "RESTAURANTE">>,
  <<<<"C","A","F","É">>, "RESTAURANTE">>, <<<<"L","A","N","C","H","E">>, "RESTAURANTE">>,
  <<<<"A","L","I","M","E","N","T">>, "ALIMENTAÇÃO">>, <<<<"I","F","D">>, "ALIMENTAÇÃO">>,
  <<<<"P","O","S","T","O">>, "POSTO">>, <<<<"C","O","M","B","U","S","T">>, "POSTO">>, <<<<"G","A","S","O","L","I","N">>, "POSTO">>,
  <<<<"U","B","E","R">>, "TRANSPORTE">>, <<<<"T","A","X","I">>, "TRANSPORTE">>, <<<<"T","R","A","N","S","P">>, "TRANSPORTE">>,
  <<<<"P","A","S","S","A","G","E","M">>, "TRANSPORTE">>,
  <<<<"A","E","R","O","P","O","R","T","O">>, "TURISMO">>, <<<<"H","O","T","E","L">>, "TURISMO">>, <<<<"T","U","R">>, "TURISMO">>,
  <<<<"E","N","T","R","E","T","E","N","I","M">>, "TURISMO">>,
  <<<<"S","A","U","D">>, "SAÚDE">>, <<<<"V","E","I","C">>, "VEÍCULOS">>, <<<<"V","E","S","T">>, "VESTUÁRIO">>,
  <<<<"L","O","J","A">>, "VESTUÁRIO">>, <<<<"M","A","G","A","Z","I","N","E">>, "VESTUÁRIO">>,
  <<<<"E","D","U">>, "EDUCAÇÃO">>, <<<<"H","O","B","B","Y">>, "HOBBY">>, <<<<"D","I","V","E","R","S">>, "DIVERSOS">> >>
\* "for k, v in mapping: if k in d: return v", then the FX detection and the default
Mapped(u, hits) ==
  IF hits # {} THEN mapping[Min(hits)][2]
  ELSE IF Contains(u, <<"E","U","R">>) \/ Contains(u, <<"U","S","D">>) \/ Contains(u, <<"F","X">>) THEN "FX"
  ELSE "DIVERSOS"
\* classify, after d = str(desc).upper()
Classified(u, amt) ==
  IF Contains(u, <<"7","1","1","7">>) THEN "PAGAMENTO"
  ELSE IF Contains(u, <<"A","J","U","S","T","E">>) \/ (Abs(amt) <= AJUSTE_MAX /\ Abs(amt) > 0) THEN "AJUSTE"
  ELSE IF \E k \in {<<"I","O","F">>, <<"J","U","R","O","S">>, <<"M","U","L","T","A">>} : Contains(u, k) THEN "ENCARGOS"
  ELSE Mapped(u, {k \in DOMAIN mapping : Contains(u, mapping[k][1])})
classify(desc, amt) == Classified(upper(desc), amt)

\* cat.lower(), the key of the per-category counter
CatLower(cat) ==
  CASE cat = "PAGAMENTO" -> "pagamento" [] cat = "AJUSTE" -> "ajuste"
    [] cat = "ENCARGOS" -> "encargos" [] cat = "SERVIÇOS" -> "serviços"
    [] cat = "SUPERMERCADO" -> "supermercado" [] cat = "FARMÁCIA" -> "farmácia"
    [] cat = "RESTAURANTE" -> "restaurante" [] cat = "ALIMENTAÇÃO" -> "alimentação"
    [] cat = "POSTO" -> "posto" [] cat = "TRANSPORTE" -> "transporte"
    [] cat = "TURISMO" -> "turismo" [] cat = "SAÚDE" -> "saúde"
    [] cat = "VEÍCULOS" -> "veículos" [] cat = "VESTUÁRIO" -> "vestuário"
    [] cat = "EDUCAÇÃO" -> "educação" [] cat = "HOBBY" -> "hobby"
    [] cat = "FX" -> "fx" [] cat = "DIVERSOS" -> "diversos"

\* is_prev_bill_payoff: the first payment, or a payment naming the previous cycle
PREV_KW == {<<"f","a","t","u","r","a"," ","a","n","t","e","r","i","o","r">>, <<"r","e","f",".">>, <<"r","e","f","ª">>, <<"p","a","g","t"," ","a","n","t","e","r","i","o","r">>}
PrevKeyword(low) == \E k \in PREV_KW : Contains(low, k)
is_prev_bill_payoff(descr, seq_no) == seq_no = 0 \/ PrevKeyword(lower(descr))

\* any(x in line.upper() for x in ("JUROS", "MULTA", "IOF DE FINANCIAMENTO"))
InterestKeyword(u) ==
  \E x \in {<<"J","U","R","O","S">>, <<"M","U","L","T","A">>, <<"I","O","F"," ","D","E"," ","F","I","N","A","N","C","I","A","M","E","N","T","O">>} : Contains(u, x)
IsInterest(line) == InterestKeyword(upper(line))

(***************************************************************************)
(* enhanced_codex.py: line cleaning                                        *)
(***************************************************************************)
LEAD_SYM == {">", "@", "§", "$", "Z", ")", "_", BULLET, "*", "®", "«", "»", " "}
strip_pua(s) == SelectSeq(s, LAMBDA c : c # PUA)
clean(raw) ==
  IF raw = <<>> THEN <<>>
  ELSE strip(sub(Rep(re_s, 2, Inf), <<" ">>,
                 replace(lstrip(strip_pua(raw), LEAD_SYM), "_", " ")))

(***************************************************************************)
(* enhanced_codex.py: build                                                *)
(***************************************************************************)
\* kv.get(f); a schema field that no keyword argument sets is "" (here <<>>, like None)
KvGet(kv, f) == IF f \in DOMAIN kv THEN kv[f] ELSE <<>>
NoKv == [f \in {} |-> <<>>]
\* str(desc).split()[0]
FirstWord(desc) == search(Plus(NotChr(Space)), desc).g0
\* "Enhanced merchant city extraction"; no caller passes merchant_city
City(desc, cat) ==
  IF cat = "FX" /\ Contains(desc, <<" ">>) THEN title(FirstWord(desc))
  ELSE IF cat = "FX" /\ desc # <<>> THEN title(desc)
  ELSE <<>>
\* build, after norm = norm_date(date, ry, rm) if date else ""
Built(card_no, norm, desc, valor_brl, cat, kv) ==
  [card_last4 |-> card_no,
   post_date |-> norm,
   desc_raw |-> desc,
   valor_brl |-> valor_brl,
   installment_seq |-> KvGet(kv, "installment_seq"),
   installment_tot |-> KvGet(kv, "installment_tot"),
   valor_orig |-> KvGet(kv, "valor_orig"),
   moeda_orig |-> <<>>,
   valor_usd |-> <<>>,
   fx_rate |-> KvGet(kv, "fx_rate"),
   iof_brl |-> KvGet(kv, "iof_brl"),
   categoria_high |-> cat,
   merchant_city |-> City(desc, cat),
   ledger_hash |-> sha1(card_no, norm, desc, valor_brl, KvGet(kv, "installment_tot"), cat),
   pagamento_fatura_anterior |-> <<>>]
build(card_no, date, desc, valor_brl, cat, ry, rm, kv) ==
  Built(card_no, IF date # <<>> THEN norm_date(date, ry, rm) ELSE <<>>, desc, valor_brl, cat, kv)


(***************************************************************************)
(* The statement lines the model reads.  A line is named by its text; Chars *)
(* spells it out character by character.                                   *)
(***************************************************************************)
Chars ==
  ("20/04 PAGAMENTO 7117 -300,00" :> <<"2","0","/","0","4"," ","P","A","G","A","M","E","N","T","O"," ","7","1","1","7"," ","-","3","0","0",",","0","0">>) @@
  ("06/04 PAGAMENTO 7117 300,00" :> <<"0","6","/","0","4"," ","P","A","G","A","M","E","N","T","O"," ","7","1","1","7"," ","3","0","0",",","0","0">>) @@
  ("21/04 PAGAMENTO ref. 7117 -50,00" :> <<"2","1","/","0","4"," ","P","A","G","A","M","E","N","T","O"," ","r","e","f","."," ","7","1","1","7"," ","-","5","0",",","0","0">>) @@
  ("05/04 PAGAMENTO 10,00 52,34" :> <<"0","5","/","0","4"," ","P","A","G","A","M","E","N","T","O"," ","1","0",",","0","0"," ","5","2",",","3","4">>) @@
  ("@15/04 PADARIA  45,90" :> <<"@","1","5","/","0","4"," ","P","A","D","A","R","I","A"," "," ","4","5",",","9","0">>) @@
  ("16/04 LOJA 05/03 10,00 80,00" :> <<"1","6","/","0","4"," ","L","O","J","A"," ","0","5","/","0","3"," ","1","0",",","0","0"," ","8","0",",","0","0">>) @@
  ("32/13 LOJA 3x R$ 45,90" :> <<"3","2","/","1","3"," ","L","O","J","A"," ","3","x"," ","R","$"," ","4","5",",","9","0">>) @@
  ("10/04 AMAZON 10,00 52,34" :> <<"1","0","/","0","4"," ","A","M","A","Z","O","N"," ","1","0",",","0","0"," ","5","2",",","3","4">>) @@
  ("Dolar de Conversao R$ 5,2340" :> <<"D","o","l","a","r"," ","d","e"," ","C","o","n","v","e","r","s","a","o"," ","R","$"," ","5",",","2","3","4","0">>) @@
  ("Repasse de IOF 1,20" :> <<"R","e","p","a","s","s","e"," ","d","e"," ","I","O","F"," ","1",",","2","0">>) @@
  ("Juros de mora 3,00" :> <<"J","u","r","o","s"," ","d","e"," ","m","o","r","a"," ","3",",","0","0">>) @@
  ("10/04 LOJA final 1234 10,00 52,34" :> <<"1","0","/","0","4"," ","L","O","J","A"," ","f","i","n","a","l"," ","1","2","3","4"," ","1","0",",","0","0"," ","5","2",",","3","4">>) @@
  ("Lançamentos no cartão (final 5678)" :> <<"L","a","n","ç","a","m","e","n","t","o","s"," ","n","o"," ","c","a","r","t","ã","o"," ","(","f","i","n","a","l"," ","5","6","7","8",")">>) @@
  ("12/04 USD STORE 30,00" :> <<"1","2","/","0","4"," ","U","S","D"," ","S","T","O","R","E"," ","3","0",",","0","0">>) @@
  ("" :> <<>>)
LineSet == DOMAIN Chars
\* the longest statement the model reads
MaxLines == 4
Statements == UNION {[1..n -> LineSet] : n \in 0..MaxLines}
RefYears == {2025}
RefMonths == {4}

\* the function f on S as an explicit table, so that each f[x] is computed once
RECURSIVE TableOn(_, _)
TableWith(f, S, x) == IF S = {x} THEN x :> f[x] ELSE (x :> f[x]) @@ TableOn(f, S \ {x})
TableOn(f, S) == TableWith(f, S, CHOOSE y \in S : TRUE)

\* a cleaned line as the loop sees it: what each regular expression finds in it
LexText(s) ==
  [text     |-> s,
   drop     |-> match(RE_DROP_HDR, s).ok,
   card     |-> search(RE_CARD, s),
   fx_main  |-> match(RE_FX_MAIN, s),
   iof_line |-> search(RE_IOF_LINE, s).ok,
   brl      |-> search(RE_BRL, s),
   dolar    |-> search(RE_DOLAR, s),
   mp       |-> OrElse(match(RE_PAY_LINE, s), match(RE_PAY_LINE_ANY, s)),
   date     |-> match(RE_DATE, s),
   dom      |-> match(RE_DOM, s),
   interest |-> IsInterest(s)]
\* line = clean(lines[i])
LexLine(raw) == LexText(clean(raw))
\* two more lines, read by the longer statements only
MoreChars ==
  ("16/04 LOJA 05/00 80,00" :> <<"1","6","/","0","4"," ","L","O","J","A"," ","0","5","/","0","0"," ","8","0",",","0","0">>) @@
  ("CARTAO final 5678" :> <<"C","A","R","T","A","O"," ","f","i","n","a","l"," ","5","6","7","8">>)
AllChars == Chars @@ MoreChars
AllLines == DOMAIN AllChars
Lex == TableOn([l \in AllLines |-> LexLine(AllChars[l])], AllLines)

(***************************************************************************)
(* enhanced_codex.py: parse_fx_chunk                                       *)
(***************************************************************************)
\* Decimal(g1.replace(",", ".")) of a rate \d+,\d{4}, in 1/10000
RateValue(g1) == ToInt(Only(g1, Digit))
\* the loop over chunk[1:] from chunk[k - 1] on: the last IOF amount and the last rate
\* line
RECURSIVE FxScan(_, _, _, _)
FxScan(chunk, k, iof_brl, rate_line) ==
  IF k > Len(chunk) THEN [iof |-> iof_brl, rate_line |-> rate_line]
  ELSE IF chunk[k].iof_line
  THEN FxScan(chunk, k + 1,
              IF chunk[k].brl.ok THEN decomma(chunk[k].brl.g0) ELSE iof_brl, rate_line)
  ELSE IF chunk[k].dolar.ok THEN FxScan(chunk, k + 1, iof_brl, <<chunk[k]>>)
  ELSE FxScan(chunk, k + 1, iof_brl, rate_line)
\* a parse_fx_chunk that would not ask for a rate line ("if not rate_line: return None"
\* left out): the variant the fallback to a domestic posting is checked against
FxResultWithoutRate(main, scan) ==
  IF ~main.ok THEN NoMatch
  ELSE [ok |-> TRUE,
        date |-> main.date,
        descr |-> main.descr,
        valor_orig |-> decomma(main.orig),
        valor_brl |-> decomma(main.brl),
        fx_rate |-> IF scan.rate_line = <<>> THEN 0
                    ELSE RateValue(scan.rate_line[1].dolar.g1),
        iof |-> scan.iof]
\* parse_fx_chunk, after main = RE_FX_MAIN.match(chunk[0]) and the loop
FxResult(main, scan) ==
  IF ~main.ok \/ scan.rate_line = <<>> THEN NoMatch
  ELSE [ok |-> TRUE,
        date |-> main.date,
        descr |-> main.descr,
        valor_orig |-> decomma(main.orig),
        valor_brl |-> decomma(main.brl),
        fx_rate |-> RateValue(scan.rate_line[1].dolar.g1),
        iof |-> scan.iof]
\* chunk: the cleaned lines, each as LexText gives it
parse_fx_chunk(chunk) ==
  IF Len(chunk) < 2 THEN NoMatch ELSE FxResult(chunk[1].fx_main, FxScan(chunk, 2, 0, <<>>))

(***************************************************************************)
(* enhanced_codex.py: parse_txt and main, for one statement                *)
(***************************************************************************)
StatKeys == {"lines", "hdr_drop", "fx", "pagamento", "iof", "encargos", "regex_miss",
             "postings"} \cup {CatLower(mapping[k][2]) : k \in DOMAIN mapping}
             \cup {"ajuste", "diversos"}
Inc(st, k) == [st EXCEPT ![k] = @ + 1]

\* an empty Counter
NoStats == [k \in StatKeys |-> 0]
\* Counter + Counter
AddStats(a, b) == [k \in StatKeys |-> a[k] + b[k]]

\* the locals of parse_txt when its loop starts on the lines ls, and those of the turn of
\* main's loop that called it
ParseStart(ls, ry, rm) ==
  [lines |-> ls, ref_y |-> ry, ref_m |-> rm, pc |-> "loop", i |-> 0,
   card |-> <<"0","0","0","0">>, rows |-> <<>>, iof_postings |-> <<>>, last_date |-> <<>>,
   pagamento_seq |-> 0, seen_fx |-> {},
   stats |-> [NoStats EXCEPT !["lines"] = Len(ls)],
   prov |-> <<>>, iof_prov |-> <<>>, dupes |-> 0, csv |-> <<>>]
\* the activation f is the one the variables show
Started(f) ==
  /\ lines = f.lines /\ ref_y = f.ref_y /\ ref_m = f.ref_m /\ pc = f.pc /\ i = f.i
  /\ card = f.card /\ rows = f.rows /\ iof_postings = f.iof_postings
  /\ last_date = f.last_date /\ pagamento_seq = f.pagamento_seq
  /\ seen_fx = f.seen_fx /\ stats = f.stats /\ prov = f.prov
  /\ iof_prov = f.iof_prov /\ dupes = f.dupes /\ csv = f.csv

Init ==
  /\ \E ls \in Statements, ry \in RefYears, rm \in RefMonths :
       Started(ParseStart(ls, ry, rm))
  /\ total = NoStats
  /\ phase = "single"
  /\ alone = <<>>
  /\ parked = <<>>
  /\ UltimateIdle
  /\ ScriptIdle
  /\ CallIdle

\* clean(lines[k]) for a 0-based k, matched
LineAt(k) == Lex[lines[k + 1]]
\* clean(lines[k]), clean(lines[k+1]), clean(lines[k+2]), as far as the statement goes
Window(k) == [n \in 1..(IF k + 2 < Len(lines) THEN 3 ELSE Len(lines) - k) |-> Lex[lines[k + n]]]
InLoop == pc = "loop" /\ i < Len(lines)
\* the line passes "Skip headers and empty lines" and "Extract card number"
Posting(ln) == ~ln.drop /\ ln.text # <<>> /\ ~ln.card.ok

\* "FX parsing with state machine (2 or 3 lines)": fx_res and consumed, for the window w
\* at the cursor; r3 is the result on three lines
FxPick(w, r3) ==
  IF ~r3.ok /\ Len(w) >= 2
  THEN [res |-> parse_fx_chunk(SubSeq(w, 1, 2)), consumed |-> 2]
  ELSE [res |-> r3, consumed |-> IF Len(w) = 3 THEN 3 ELSE 1]
FxTry(w) == FxPick(w, IF Len(w) = 3 THEN parse_fx_chunk(w) ELSE NoMatch)

Loop(unch) ==
  /\ pc' = pc
  /\ UNCHANGED <<lines, ref_y, ref_m, dupes, csv>>
  /\ UNCHANGED unch
  /\ UNCHANGED <<main_vars, ultimate_vars, script_vars, call_vars>>

HdrDrop ==
  /\ InLoop
  /\ LineAt(i).drop
  /\ stats' = Inc(stats, "hdr_drop")
  /\ i' = i + 1
  /\ Loop(<<card, rows, iof_postings, last_date, pagamento_seq, seen_fx, prov, iof_prov>>)

BlankLine ==
  /\ InLoop
  /\ \E ln \in {LineAt(i)} : ~ln.drop /\ ln.text = <<>>
  /\ i' = i + 1
  /\ Loop(<<card, rows, iof_postings, last_date, pagamento_seq, seen_fx, stats, prov,
            iof_prov>>)

\* a card-header rule that would also forget the last date ("last_date = None" added):
\* the variant the frame of the card header is checked against
CardHeaderForgettingDate ==
  /\ InLoop
  /\ \E ln \in {LineAt(i)} :
       /\ ~ln.drop
       /\ ln.text # <<>>
       /\ ln.card.ok
       /\ card' = ln.card.g1
  /\ last_date' = <<>>
  /\ i' = i + 1
  /\ Loop(<<rows, iof_postings, pagamento_seq, seen_fx, stats, prov, iof_prov>>)
\* "Extract card number"
CardHeader ==
  /\ InLoop
  /\ \E ln \in {LineAt(i)} :
       /\ ~ln.drop
       /\ ln.text # <<>>
       /\ ln.card.ok
       /\ card' = ln.card.g1
  /\ i' = i + 1
  /\ Loop(<<rows, iof_postings, last_date, pagamento_seq, seen_fx, stats, prov, iof_prov>>)

\* fx_key = (fx_res['descr'], fx_res['date'], fx_res['valor_brl'], ...)
FxKey(res) == <<res.descr, res.date, res.valor_brl, res.valor_orig, res.fx_rate>>
\* a duplicate test that would never find a key ("if fx_key in seen_fx" left out): the
\* variant the dropping of repeated clusters is checked against
FxNeverSeen(key, seen) == FALSE
\* "if fx_key in seen_fx"
FxSeen(key, seen) == key \in seen
FxCluster ==
  /\ InLoop
  /\ \E w \in {Window(i)} :
       /\ Posting(w[1])
       /\ \E fx \in {FxTry(w)} :
            /\ fx.res.ok
            /\ IF FxSeen(FxKey(fx.res), seen_fx)
               THEN UNCHANGED <<seen_fx, rows, prov, stats>>
               ELSE /\ seen_fx' = seen_fx \cup {FxKey(fx.res)}
                    /\ rows' = Append(rows,
                          build(card, fx.res.date, fx.res.descr, fx.res.valor_brl, "FX",
                                ref_y, ref_m,
                                [valor_orig |-> <<fx.res.valor_orig>>,
                                 fx_rate |-> <<fx.res.fx_rate>>,
                                 iof_brl |-> <<fx.res.iof>>]))
                    /\ prov' = Append(prov, i)
                    /\ stats' = Inc(stats, "fx")
            /\ i' = i + fx.consumed
  /\ Loop(<<card, iof_postings, last_date, pagamento_seq, iof_prov>>)

\* a payment rule that would keep every amount ("if val >= 0" left out): the variant
\* the rejection of non-negative payments is checked against
PaymentNeverRejected(val) == FALSE
\* "if val >= 0: ... Positive payment ignored"
PaymentRejected(val) == val >= 0
\* "Enhanced payment parsing with first-payment filtering"
PaymentLine ==
  /\ InLoop
  /\ \E w \in {Window(i)} :
       /\ Posting(w[1])
       /\ ~FxTry(w).res.ok
       /\ w[1].mp.ok
       /\ IF is_prev_bill_payoff(w[1].text, pagamento_seq)
          THEN /\ pagamento_seq' = pagamento_seq + 1
               /\ UNCHANGED <<rows, prov, stats, last_date>>
          ELSE \E val \in {decomma(w[1].mp.amt)} :
                 IF PaymentRejected(val)
                 THEN UNCHANGED <<pagamento_seq, rows, prov, stats, last_date>>
                 ELSE /\ rows' = Append(rows, build(card, w[1].mp.date, <<"P","A","G","A","M","E","N","T","O">>, val,
                                                    "PAGAMENTO", ref_y, ref_m, NoKv))
                      /\ prov' = Append(prov, i)
                      /\ stats' = Inc(stats, "pagamento")
                      /\ pagamento_seq' = pagamento_seq + 1
                      /\ last_date' = w[1].mp.date
  /\ i' = i + 1
  /\ Loop(<<card, iof_postings, seen_fx, iof_prov>>)

\* "Enhanced installment detection": seq and tot by ins.lastindex
InstallmentOf(ins, last) ==
  IF ~ins.ok THEN [seq |-> <<>>, tot |-> <<>>]
  ELSE IF last = 2 THEN [seq |-> <<ToInt(ins.g1)>>, tot |-> <<ToInt(ins.g2)>>]
  ELSE IF last = 3 THEN [seq |-> <<ToInt(ins.g3)>>, tot |-> <<>>]
  ELSE IF last = 5 THEN [seq |-> <<ToInt(ins.g4)>>, tot |-> <<ToInt(ins.g5)>>]
  ELSE [seq |-> <<>>, tot |-> <<>>]
\* ins = RE_INST.search(desc) or RE_INST_TXT.search(desc) or re_parc.search(desc)
InstallmentMatch(desc) ==
  OrElse(search(RE_INST, desc), OrElse(search(RE_INST_TXT, desc), search(re_parc, desc)))
Installed(ins) == InstallmentOf(ins, lastindex(ins))
Installment(desc) == Installed(InstallmentMatch(desc))
\* "if tot and seq and seq > tot": None and 0 are false
OutOfCycle(ins) ==
  /\ ins.tot # <<>> /\ ins.tot[1] # 0
  /\ ins.seq # <<>> /\ ins.seq[1] # 0
  /\ ins.seq[1] > ins.tot[1]

\* "Domestic transaction parsing"
DomesticLine ==
  /\ InLoop
  /\ \E w \in {Window(i)} :
       /\ Posting(w[1])
       /\ ~FxTry(w).res.ok
       /\ ~w[1].mp.ok
       /\ w[1].date.ok
       /\ IF ~w[1].dom.ok
          THEN UNCHANGED <<rows, prov, stats, last_date>>
          ELSE \E amt \in {decomma(w[1].dom.amt)}, ins \in {Installment(w[1].dom.desc)} :
                 IF OutOfCycle(ins)
                 THEN UNCHANGED <<rows, prov, stats, last_date>>
                 ELSE \E cat \in {classify(w[1].dom.desc, amt)} :
                        /\ rows' = Append(rows,
                              build(card, w[1].dom.date, w[1].dom.desc, amt, cat, ref_y, ref_m,
                                    [installment_seq |-> ins.seq, installment_tot |-> ins.tot]))
                        /\ prov' = Append(prov, i)
                        /\ stats' = Inc(stats, CatLower(cat))
                        /\ last_date' = w[1].dom.date
  /\ i' = i + 1
  /\ Loop(<<card, iof_postings, pagamento_seq, seen_fx, iof_prov>>)

\* the line at the head of the window w reaches the rules after the domestic one
Residual(w) ==
  /\ Posting(w[1])
  /\ ~FxTry(w).res.ok
  /\ ~w[1].mp.ok
  /\ ~w[1].date.ok

\* "IOF handling"
IofLine ==
  /\ InLoop
  /\ \E w \in {Window(i)} :
       /\ Residual(w)
       /\ w[1].iof_line
       /\ IF ~w[1].brl.ok
          THEN UNCHANGED <<iof_postings, iof_prov, stats>>
          ELSE \E valor \in {decomma(w[1].brl.g0)} :
                 /\ iof_postings' = Append(iof_postings,
                       build(card, last_date, <<"R","e","p","a","s","s","e"," ","d","e"," ","I","O","F"," ","e","m"," ","R","$">>, valor, "IOF",
                             ref_y, ref_m, [iof_brl |-> <<valor>>]))
                 /\ iof_prov' = Append(iof_prov, i)
                 /\ stats' = Inc(stats, "iof")
  /\ i' = i + 1
  /\ Loop(<<card, rows, last_date, pagamento_seq, seen_fx, prov>>)

\* "Interest and fees"
InterestLine ==
  /\ InLoop
  /\ \E w \in {Window(i)} :
       /\ Residual(w)
       /\ ~w[1].iof_line
       /\ w[1].interest
       /\ IF ~w[1].brl.ok
          THEN UNCHANGED <<rows, prov, stats>>
          ELSE \E valor \in {decomma(w[1].brl.g0)} :
                 IF valor = 0
                 THEN UNCHANGED <<rows, prov, stats>>
                 ELSE /\ rows' = Append(rows, build(card, last_date, w[1].text, valor,
                                                    "ENCARGOS", ref_y, ref_m, NoKv))
                      /\ prov' = Append(prov, i)
                      /\ stats' = Inc(stats, "encargos")
  /\ i' = i + 1
  /\ Loop(<<card, iof_postings, last_date, pagamento_seq, seen_fx, iof_prov>>)

\* "Track missed patterns"
RegexMiss ==
  /\ InLoop
  /\ \E w \in {Window(i)} :
       /\ Residual(w)
       /\ ~w[1].iof_line
       /\ ~w[1].interest
  /\ stats' = Inc(stats, "regex_miss")
  /\ i' = i + 1
  /\ Loop(<<card, rows, iof_postings, last_date, pagamento_seq, seen_fx, prov, iof_prov>>)

\* after the loop: "Add IOF postings", "Final filtering", and the return
Kept(r) == r.post_date # <<>>
KeepIdx(rs) == {k \in 1..Len(rs) : Kept(rs[k])}
RECURSIVE Pick(_, _, _)
\* the elements of xs at the positions where rs is kept, in order
Pick(xs, rs, k) ==
  IF k > Len(rs) THEN <<>>
  ELSE (IF Kept(rs[k]) THEN <<xs[k]>> ELSE <<>>) \o Pick(xs, rs, k + 1)
ParseReturn ==
  /\ pc = "loop"
  /\ i >= Len(lines)
  /\ \E all \in {rows \o iof_postings} :
       /\ rows' = Pick(all, all, 1)
       /\ prov' = Pick(prov \o iof_prov, all, 1)
       /\ stats' = [stats EXCEPT !["postings"] = Len(Pick(all, all, 1))]
  /\ pc' = "parsed"
  /\ UNCHANGED <<lines, ref_y, ref_m, i, card, iof_postings, last_date, pagamento_seq,
                 seen_fx, iof_prov, dupes, csv>>
  /\ UNCHANGED <<main_vars, ultimate_vars, script_vars, call_vars>>

\* main, after parse_txt: "total += stats", "Deduplication check" and "Write CSV"
DupCount(rs) ==
  Cardinality({k \in 1..Len(rs) : \E j \in 1..(k - 1) : rs[j].ledger_hash = rs[k].ledger_hash})
WriteCsv ==
  /\ pc = "parsed"
  /\ total' = AddStats(total, stats)
  /\ dupes' = DupCount(rows)
  /\ csv' = rows
  /\ pc' = "written"
  /\ UNCHANGED <<lines, ref_y, ref_m, i, card, rows, iof_postings, last_date,
                 pagamento_seq, seen_fx, stats, prov, iof_prov>>
  /\ UNCHANGED <<phase, alone, parked, ultimate_vars, script_vars, call_vars>>

Next ==
  \/ HdrDrop
  \/ BlankLine
  \/ CardHeader
  \/ FxCluster
  \/ PaymentLine
  \/ DomesticLine
  \/ IofLine
  \/ InterestLine
  \/ RegexMiss
  \/ ParseReturn
  \/ WriteCsv

Spec == Init /\ [][Next]_vars


(***************************************************************************)
(* Two statements.  main parses the files one after the other, each call   *)
(* of parse_txt with locals of its own; a caller that runs two calls at    *)
(* once interleaves their loop steps.  The first statement is parsed alone *)
(* and then once more, next to a second statement.                         *)
(***************************************************************************)
PairLineSet ==
  {"20/04 PAGAMENTO 7117 -300,00", "@15/04 PADARIA  45,90", "10/04 AMAZON 10,00 52,34",
   "Dolar de Conversao R$ 5,2340", "Repasse de IOF 1,20", "Juros de mora 3,00",
   "10/04 LOJA final 1234 10,00 52,34", "Lançamentos no cartão (final 5678)", ""}
PairOtherSet ==
  {"20/04 PAGAMENTO 7117 -300,00", "@15/04 PADARIA  45,90", "10/04 AMAZON 10,00 52,34",
   "Dolar de Conversao R$ 5,2340", "10/04 LOJA final 1234 10,00 52,34"}
\* the longest statement of a pair
PairMaxLines == 2
PairStatements == UNION {[1..n -> PairLineSet] : n \in 0..PairMaxLines}
PairOthers == UNION {[1..n -> PairOtherSet] : n \in 0..PairMaxLines}

\* the locals of the activation that is running
Frame ==
  [lines |-> lines, ref_y |-> ref_y, ref_m |-> ref_m, pc |-> pc, i |-> i,
   card |-> card, rows |-> rows, iof_postings |-> iof_postings, last_date |-> last_date,
   pagamento_seq |-> pagamento_seq, seen_fx |-> seen_fx, stats |-> stats,
   prov |-> prov, iof_prov |-> iof_prov, dupes |-> dupes, csv |-> csv]
\* the activation f runs next
Load(f) ==
  /\ lines' = f.lines /\ ref_y' = f.ref_y /\ ref_m' = f.ref_m /\ pc' = f.pc /\ i' = f.i
  /\ card' = f.card /\ rows' = f.rows /\ iof_postings' = f.iof_postings
  /\ last_date' = f.last_date /\ pagamento_seq' = f.pagamento_seq
  /\ seen_fx' = f.seen_fx /\ stats' = f.stats /\ prov' = f.prov
  /\ iof_prov' = f.iof_prov /\ dupes' = f.dupes /\ csv' = f.csv

InitPair ==
  /\ \E ls \in PairStatements, ry \in RefYears, rm \in RefMonths :
       /\ Started(ParseStart(ls, ry, rm))
       /\ parked \in {ParseStart(other, ry, rm) : other \in PairOthers}
  /\ total = NoStats
  /\ phase = "alone"
  /\ alone = <<>>
  /\ UltimateIdle
  /\ ScriptIdle
  /\ CallIdle

\* a main whose next call of parse_txt finds the payment counter of the call before:
\* the variant the repeatability of a parse is checked against
NextFileKeepingCounter ==
  /\ phase = "alone"
  /\ pc = "written"
  /\ alone' = Frame
  /\ phase' = "pair"
  /\ Load([ParseStart(lines, ref_y, ref_m) EXCEPT !.pagamento_seq = pagamento_seq])
  /\ UNCHANGED <<total, parked, ultimate_vars, script_vars, call_vars>>
\* main's loop comes to its next file, here the same lines again: what the statement gave
\* is kept, and parse_txt starts anew
NextFile ==
  /\ phase = "alone"
  /\ pc = "written"
  /\ alone' = Frame
  /\ phase' = "pair"
  /\ Load(ParseStart(lines, ref_y, ref_m))
  /\ UNCHANGED <<total, parked, ultimate_vars, script_vars, call_vars>>

\* two activations that share the card context: the variant the independence of two
\* statements is checked against
SwitchSharingCard ==
  /\ phase = "pair"
  /\ parked' = Frame
  /\ Load([parked EXCEPT !.card = card])
  /\ UNCHANGED <<total, phase, alone, ultimate_vars, script_vars, call_vars>>
\* the other activation runs on: the other statement's turn of main's loop, or the
\* other of two calls of parse_txt running at once
Switch ==
  /\ phase = "pair"
  /\ parked' = Frame
  /\ Load(parked)
  /\ UNCHANGED <<total, phase, alone, ultimate_vars, script_vars, call_vars>>

NextPair ==
  \/ Next
  \/ NextFile
  \/ Switch

SpecPair == InitPair /\ [][NextPair]_vars

(***************************************************************************)
(* Longer statements.  An FX cluster is two or three lines, so a statement  *)
(* in which a cluster comes twice, or under two card headers, has five or   *)
(* six lines: these statements are made of the lines of FX clusters and a   *)
(* card header; next to them, every statement of up to two lines.           *)
(***************************************************************************)
ClusterLineSet ==
  {"10/04 AMAZON 10,00 52,34", "Dolar de Conversao R$ 5,2340", "Repasse de IOF 1,20",
   "CARTAO final 5678"}
\* the longest statement of cluster lines, and the longest of all lines
ClusterMaxLines == 6
ShortMaxLines == 2
ClusterStatements ==
  UNION {[1..n -> ClusterLineSet] : n \in 0..ClusterMaxLines}
    \cup UNION {[1..n -> AllLines] : n \in 0..ShortMaxLines}

InitCluster ==
  /\ \E ls \in ClusterStatements, ry \in RefYears, rm \in RefMonths :
       Started(ParseStart(ls, ry, rm))
  /\ total = NoStats
  /\ phase = "single"
  /\ alone = <<>>
  /\ parked = <<>>
  /\ UltimateIdle
  /\ ScriptIdle
  /\ CallIdle

SpecCluster == InitCluster /\ [][Next]_vars

(***************************************************************************)
(* lab2/itau_parser_ultimate.py: the patterns of TransactionExtractor and  *)
(* of CardNumberExtractor                                                  *)
(***************************************************************************)
\* [\d.,]
NumChars == Digit \cup {".", ","}
\* ^(?P<date>\d{1,2}/\d{1,2}(?:/\d{4})?)\s+PAGAMENTO.*?(?P<amt>-?\s*[\d.,]+)\s*$, re.I
pat_payment ==
  IgnoreCase(Cat(<<Bol,
                   Grp("date", Cat(<<Rep(re_d, 1, 2), Lit(<<"/">>), Rep(re_d, 1, 2),
                                     Opt(Cat(<<Lit(<<"/">>), Rep(re_d, 4, 4)>>))>>)),
                   Plus(re_s), Lit(<<"P","A","G","A","M","E","N","T","O">>), Lazy(Dot, 0, Inf),
                   Grp("amt", Cat(<<Opt(Lit(<<"-">>)), Star(re_s), Plus(Chr(NumChars))>>)),
                   Star(re_s), Eol>>))
\* ^(?P<date>\d{1,2}/\d{1,2})\s+(?P<desc>.+?)\s+(?P<amt>[-\d.,]+)$
pat_domestic ==
  Cat(<<Bol, Grp("date", Cat(<<Rep(re_d, 1, 2), Lit(<<"/">>), Rep(re_d, 1, 2)>>)), Plus(re_s),
        Grp("desc", Lazy(Dot, 1, Inf)), Plus(re_s),
        Grp("amt", Plus(Chr(NumChars \cup {"-"}))), Eol>>)
\* ^(?P<date>\d{2}/\d{2})\s+(?P<desc>.+?)\s+(?P<orig>[\d.,]+)\s+(?P<brl>[\d.,]+)$
pat_fx_main ==
  Cat(<<Bol, Grp("date", Cat(<<Rep(re_d, 2, 2), Lit(<<"/">>), Rep(re_d, 2, 2)>>)), Plus(re_s),
        Grp("desc", Lazy(Dot, 1, Inf)), Plus(re_s),
        Grp("orig", Plus(Chr(NumChars))), Plus(re_s),
        Grp("brl", Plus(Chr(NumChars))), Eol>>)
\* ^(?P<city>.+?)\s+(?P<orig>[\d.,]+)\s+(?P<cur>[A-Z]{3})\s+(?P<usd>[\d.,]+)$
pat_fx_city ==
  Cat(<<Bol, Grp("city", Lazy(Dot, 1, Inf)), Plus(re_s),
        Grp("orig", Plus(Chr(NumChars))), Plus(re_s),
        Grp("cur", Rep(Chr(UpperAscii), 3, 3)), Plus(re_s),
        Grp("usd", Plus(Chr(NumChars))), Eol>>)
\* D[óo]lar de Convers[ãa]o.*?(?P<rate>[\d.,]+)
pat_fx_rate ==
  Cat(<<Lit(<<"D">>), Chr({"ó", "o"}), Lit(<<"l","a","r"," ","d","e"," ","C","o","n","v","e","r","s">>), Chr({"ã", "a"}), Lit(<<"o">>),
        Lazy(Dot, 0, Inf), Grp("rate", Plus(Chr(NumChars)))>>)
\* Repasse de IOF.*?([\d.,]+), re.I
pat_iof ==
  IgnoreCase(Cat(<<Lit(<<"R","e","p","a","s","s","e"," ","d","e"," ","I","O","F">>), Lazy(Dot, 0, Inf), Grp("g1", Plus(Chr(NumChars)))>>))
\* (\d{1,2})/(\d{1,2})
pat_installment == Cat(<<Grp("g1", Rep(re_d, 1, 2)), Lit(<<"/">>), Grp("g2", Rep(re_d, 1, 2))>>)
\* -?\s*\d{1,3}(?:\.\d{3})*,\d{2}
pat_amount ==
  Cat(<<Opt(Lit(<<"-">>)), Star(re_s), Rep(re_d, 1, 3),
        Star(Cat(<<Lit(<<".">>), Rep(re_d, 3, 3)>>)), Lit(<<",">>), Rep(re_d, 2, 2)>>)
\* parsing.card_patterns:  final (\d{4})  |  cart[ãa]o.*?(\d{4})  |  (\d{4})\s*$
card_patterns == <<
  Cat(<<Lit(<<"f","i","n","a","l"," ">>), Grp("g1", Rep(re_d, 4, 4))>>),
  Cat(<<Lit(<<"c","a","r","t">>), Chr({"ã", "a"}), Lit(<<"o">>), Lazy(Dot, 0, Inf),
        Grp("g1", Rep(re_d, 4, 4))>>),
  Cat(<<Grp("g1", Rep(re_d, 4, 4)), Star(re_s), Eol>>) >>
\* the first of the card patterns that is found in the line
CardSearch(s) ==
  OrElse(search(card_patterns[1], s),
         OrElse(search(card_patterns[2], s), search(card_patterns[3], s)))

(***************************************************************************)
(* lab2/itau_parser_ultimate.py: the helpers of TransactionExtractor       *)
(***************************************************************************)
HasChr(s, c) == \E k \in DOMAIN s : s[k] = c
\* clean_str after the two format branches
AmountText(clean_str) ==
  IF HasChr(clean_str, ",") /\ HasChr(clean_str, ".")
  THEN replace(SelectSeq(clean_str, LAMBDA c : c # "."), ",", ".")
  ELSE replace(clean_str, ",", ".")
\* _parse_amount, in cents: 0.00 for an empty string or one Decimal rejects
_parse_amount(amount_str) ==
  IF amount_str = <<>> THEN 0
  ELSE CentsOf(match(DECIMAL, AmountText(Only(strip(amount_str), NumChars \cup {"-"}))))

\* business_rules.adjustment_threshold, in cents.  It is the float 0.30, which is
\* below Decimal("0.30"): an amount of 0.30 exactly is above the threshold
adjustment_threshold == 30
IsLeap(y) == (y % 4 = 0 /\ y % 100 # 0) \/ y % 400 = 0
DaysIn(m, y) ==
  IF m = 2 THEN (IF IsLeap(y) THEN 29 ELSE 28)
  ELSE IF m \in {4, 6, 9, 11} THEN 30 ELSE 31
\* the texts "%d/%m/%Y" or "%d/%m" may parse
DATE_TEXT ==
  Cat(<<Grp("d", Rep(re_d, 1, 2)), Lit(<<"/">>), Grp("m", Rep(re_d, 1, 2)),
        Opt(Cat(<<Lit(<<"/">>), Grp("Y", Rep(re_d, 4, 4))>>)), Eol>>)
\* datetime(y, m, d) exists
IsDate(y, m, d) == y >= 1 /\ m >= 1 /\ m <= 12 /\ d >= 1 /\ d <= DaysIn(m, y)
\* dt.strftime('%Y-%m-%d') when strptime took the text, else the text
DateOr(date_str, y, m, d, year) == IF IsDate(y, m, d) THEN <<year, m, d>> ELSE date_str
\* the loop over date_formats: "%d/%m/%Y", then "%d/%m" (which parses into the year
\* 1900, replaced by default_year); "%Y-%m-%d" takes no text that has a "/"
Strptime(date_str, mt, default_year) ==
  IF ~mt.ok THEN date_str
  ELSE IF group(mt, "Y") # <<>>
  THEN DateOr(date_str, ToInt(mt.Y), ToInt(mt.m), ToInt(mt.d), ToInt(mt.Y))
  ELSE DateOr(date_str, 1900, ToInt(mt.m), ToInt(mt.d), default_year)
\* _normalize_date: <<y, m, d>> for "YYYY-MM-DD", else the text unchanged
_normalize_date(date_str, default_year) ==
  IF date_str = <<>> THEN <<>> ELSE Strptime(date_str, match(DATE_TEXT, date_str), default_year)

\* _parse_installments, after match = patterns['installment'].search(desc)
Installments(mt) == IF mt.ok THEN <<ToInt(mt.g1), ToInt(mt.g2)>> ELSE <<0, 0>>
_parse_installments(desc) == Installments(search(pat_installment, desc))

\* config 'categories', in the order of the dict, without the DIVERSOS fallback
categories == <<
  <<"PAGAMENTO", {<<"7","1","1","7">>, <<"P","A","G","A","M","E","N","T","O">>}>>,
  <<"FARMÁCIA", {<<"F","A","R","M","A","C">>, <<"D","R","O","G">>, <<"P","A","N","V","E","L">>}>>,
  <<"SUPERMERCADO", {<<"S","U","P","E","R","M","E","R","C">>, <<"M","E","R","C","A","D","O">>}>>,
  <<"RESTAURANTE", {<<"R","E","S","T","A","U","R">>, <<"P","I","Z","Z">>, <<"B","A","R">>, <<"C","A","F","É">>, <<"L","A","N","C","H","E">>}>>,
  <<"POSTO", {<<"P","O","S","T","O">>, <<"C","O","M","B","U","S","T">>, <<"G","A","S","O","L","I","N">>}>>,
  <<"TRANSPORTE", {<<"U","B","E","R">>, <<"T","A","X","I">>, <<"T","R","A","N","S","P">>, <<"P","A","S","S","A","G","E","M">>}>>,
  <<"TURISMO", {<<"H","O","T","E","L">>, <<"A","E","R","O","P","O","R","T","O">>, <<"E","N","T","R","E","T","E","N","I","M">>}>>,
  <<"SAÚDE", {<<"S","A","U","D">>, <<"M","E","D","I","C">>, <<"H","O","S","P","I","T","A","L">>}>>,
  <<"VESTUÁRIO", {<<"V","E","S","T">>, <<"L","O","J","A">>, <<"M","A","G","A","Z","I","N","E">>}>>,
  <<"EDUCAÇÃO", {<<"E","D","U">>, <<"E","S","C","O","L","A">>, <<"U","N","I","V","E","R","S">>}>>,
  <<"SERVIÇOS", {<<"A","N","U","I","D","A","D","E">>, <<"T","A","R","I","F","A">>, <<"S","E","G","U","R","O">>, <<"P","R","O","D","U","T","O">>}>> >>
\* any(kw in desc_upper for kw in kws)
AnyIn(desc_upper, kws) == \E kw \in kws : Contains(desc_upper, kw)
\* the first category with a keyword in the description, else DIVERSOS
FirstCategory(hits) == IF hits = {} THEN "DIVERSOS" ELSE categories[Min(hits)][1]
\* _categorize_transaction, after desc_upper = desc.upper(); amount in cents
Categorized(desc_upper, amount) ==
  IF AnyIn(desc_upper, {<<"7","1","1","7">>}) THEN "PAGAMENTO"
  ELSE IF AnyIn(desc_upper, {<<"A","J","U","S","T","E">>}) \/ (0 < Abs(amount) /\ Abs(amount) < adjustment_threshold)
  THEN "AJUSTE"
  ELSE IF AnyIn(desc_upper, {<<"I","O","F">>, <<"R","E","P","A","S","S","E">>, <<"J","U","R","O","S">>, <<"M","U","L","T","A">>}) THEN "ENCARGOS"
  ELSE FirstCategory({k \in DOMAIN categories : AnyIn(desc_upper, categories[k][2])})
_categorize_transaction(desc, amount) == Categorized(upper(desc), amount)

\* Transaction._generate_hash: the SHA1 of the six fields, modelled by the fields
_generate_hash(card_last4, post_date, desc_raw, amount_brl, installment_tot, category) ==
  <<card_last4, post_date, desc_raw, amount_brl, installment_tot, category>>
\* a keyword argument of Transaction(...), or the dataclass's default
Arg(kw, f, dflt) == IF f \in DOMAIN kw THEN kw[f] ELSE dflt
\* Transaction(...): the dataclass with its defaults; kw holds the keyword arguments.
\* ok = FALSE when _validate raises (no date or no description), which every caller
\* turns into None.
Transaction(card_last4, post_date, desc_raw, amount_brl, kw) ==
  [ok |-> post_date # <<>> /\ desc_raw # <<>>,
   card_last4 |-> card_last4,
   post_date |-> post_date,
   desc_raw |-> desc_raw,
   amount_brl |-> amount_brl,
   installment_seq |-> Arg(kw, "installment_seq", 0),
   installment_tot |-> Arg(kw, "installment_tot", 0),
   fx_rate |-> Arg(kw, "fx_rate", 0),
   iof_brl |-> Arg(kw, "iof_brl", 0),
   category |-> Arg(kw, "category", ""),
   merchant_city |-> Arg(kw, "merchant_city", <<>>),
   amount_orig |-> Arg(kw, "amount_orig", 0),
   currency_orig |-> Arg(kw, "currency_orig", <<>>),
   amount_usd |-> Arg(kw, "amount_usd", 0),
   ledger_hash |-> _generate_hash(card_last4, post_date, desc_raw, amount_brl,
                                  Arg(kw, "installment_tot", 0), Arg(kw, "category", ""))]

(***************************************************************************)
(* lab2/itau_parser_ultimate.py: TransactionExtractor.extract_transactions *)
(***************************************************************************)
UltimateChars ==
  ("20/04 PAGAMENTO 7117 -300,00" :> <<"2","0","/","0","4"," ","P","A","G","A","M","E","N","T","O"," ","7","1","1","7"," ","-","3","0","0",",","0","0">>) @@
  ("06/04 PAGAMENTO 7117 300,00" :> <<"0","6","/","0","4"," ","P","A","G","A","M","E","N","T","O"," ","7","1","1","7"," ","3","0","0",",","0","0">>) @@
  ("15/04 PADARIA 45,90" :> <<"1","5","/","0","4"," ","P","A","D","A","R","I","A"," ","4","5",",","9","0">>) @@
  ("10/04 AMAZON 10,00 52,34" :> <<"1","0","/","0","4"," ","A","M","A","Z","O","N"," ","1","0",",","0","0"," ","5","2",",","3","4">>) @@
  ("SEATTLE 10,00 USD 10,00" :> <<"S","E","A","T","T","L","E"," ","1","0",",","0","0"," ","U","S","D"," ","1","0",",","0","0">>) @@
  ("Dolar de Conversao R$ 5,2340" :> <<"D","o","l","a","r"," ","d","e"," ","C","o","n","v","e","r","s","a","o"," ","R","$"," ","5",",","2","3","4","0">>) @@
  ("Repasse de IOF 1,20" :> <<"R","e","p","a","s","s","e"," ","d","e"," ","I","O","F"," ","1",",","2","0">>) @@
  ("Cartao final 1234" :> <<"C","a","r","t","a","o"," ","f","i","n","a","l"," ","1","2","3","4">>) @@
  ("" :> <<>>)
UltimateLineSet == DOMAIN UltimateChars
\* the longest line list extract_transactions is given
UltimateMaxLines == 4
UltimateInputs == UNION {[1..n -> UltimateLineSet] : n \in 0..UltimateMaxLines}
\* datetime.now(), as <<year, month, day>>
Todays == {<<2026, 11, 3>>}

\* a line as extract_transactions sees it: the patterns on the line as given (the FX
\* window and the card patterns) and on line.strip() (the single-line rules)
UltimateLexLine(raw, line) ==
  [raw      |-> raw,
   line     |-> line,
   card     |-> CardSearch(raw),
   fx_main  |-> match(pat_fx_main, raw),
   fx_city  |-> match(pat_fx_city, raw),
   fx_rate  |-> search(pat_fx_rate, raw),
   has_iof  |-> Contains(upper(raw), <<"I","O","F">>),
   amount   |-> search(pat_amount, raw),
   payment  |-> match(pat_payment, line),
   domestic |-> match(pat_domestic, line),
   iof      |-> search(pat_iof, line)]
UltimateLex ==
  TableOn([l \in UltimateLineSet |-> UltimateLexLine(UltimateChars[l], strip(UltimateChars[l]))],
          UltimateLineSet)

\* CardNumberExtractor.extract_card_numbers: entry k + 1 is card_mapping[k]
RECURSIVE CardsFrom(_, _)
CardOf(mt, current_card) == IF mt.ok THEN mt.g1 ELSE current_card
CardsNext(ls, c) == <<c>> \o CardsFrom(Tail(ls), c)
CardsFrom(ls, current_card) ==
  IF ls = <<>> THEN <<>> ELSE CardsNext(ls, CardOf(UltimateLex[Head(ls)].card, current_card))
extract_card_numbers(ls) == CardsFrom(ls, <<"0","0","0","0">>)

\* the loop of _parse_fx_transaction over lines[1:]: the first line with a rate and the
\* last line with "IOF" and an amount
FxRates(w) == {k \in 2..Len(w) : w[k].fx_rate.ok}
FxIofs(w) == {k \in 2..Len(w) : w[k].has_iof /\ w[k].amount.ok}
FxIofAmount(w, iofs) == IF iofs = {} THEN 0 ELSE _parse_amount(w[MaxOf(iofs)].amount.g0)
\* the Transaction _parse_fx_transaction returns
FxTransaction(main_match, city_match, rate_match, iof_amount, card_last4, default_year) ==
  Transaction(card_last4, _normalize_date(main_match.date, default_year),
              main_match.desc, _parse_amount(main_match.brl),
              [fx_rate |-> _parse_amount(rate_match.rate),
               iof_brl |-> iof_amount,
               category |-> "FX",
               merchant_city |-> title(city_match.city),
               amount_orig |-> _parse_amount(city_match.orig),
               currency_orig |-> city_match.cur,
               amount_usd |-> _parse_amount(city_match.usd)])
\* _parse_fx_transaction(lines[k:k+3], card_last4): w is the window, as lexed lines
_parse_fx_transaction(w, card_last4, default_year) ==
  IF Len(w) < 2 THEN NoMatch
  ELSE IF ~w[1].fx_main.ok \/ ~w[2].fx_city.ok \/ FxRates(w) = {} THEN NoMatch
  ELSE FxTransaction(w[1].fx_main, w[2].fx_city, w[Min(FxRates(w))].fx_rate,
                     FxIofAmount(w, FxIofs(w)), card_last4, default_year)

\* _parse_payment, after match = patterns['payment'].match(line) and
\* amount = _parse_amount(match.group('amt')): None for an amount that is not negative
Payment(mt, amount, card_last4, default_year) ==
  IF amount >= 0 THEN NoMatch
  ELSE Transaction(card_last4, _normalize_date(mt.date, default_year),
                   <<"P","A","G","A","M","E","N","T","O">>, amount, [category |-> "PAGAMENTO"])
_parse_payment(ln, card_last4, default_year) ==
  IF ~ln.payment.ok THEN NoMatch
  ELSE Payment(ln.payment, _parse_amount(ln.payment.amt), card_last4, default_year)

\* _parse_domestic_transaction, after the match, amount and inst_seq, inst_tot
Domestic(mt, amount, inst, card_last4, default_year) ==
  Transaction(card_last4, _normalize_date(mt.date, default_year), mt.desc, amount,
              [installment_seq |-> inst[1],
               installment_tot |-> inst[2],
               category |-> _categorize_transaction(mt.desc, amount)])
_parse_domestic_transaction(ln, card_last4, default_year) ==
  IF ~ln.domestic.ok THEN NoMatch
  ELSE Domestic(ln.domestic, _parse_amount(ln.domestic.amt),
                _parse_installments(ln.domestic.desc), card_last4, default_year)

\* _parse_iof, after the match and amount; the date is datetime.now()
Iof(ln, amount, card_last4, now) ==
  Transaction(card_last4, now, ln.line, amount, [category |-> "IOF", iof_brl |-> amount])
_parse_iof(ln, card_last4, now) ==
  IF ~ln.iof.ok THEN NoMatch ELSE Iof(ln, _parse_amount(ln.iof.g1), card_last4, now)

\* business_rules.ignore_first_payment is True in the default configuration
_should_ignore_payment(payment, payment_count) == payment_count = 0

UltimateInit ==
  /\ u_lines \in UltimateInputs
  /\ u_now \in Todays
  /\ u_pc = "loop"
  /\ u_i = 0
  /\ u_card_mapping = extract_card_numbers(u_lines)
  /\ u_payment_count = 0
  /\ u_seen_fx = {}
  /\ u_transactions = <<>>
  /\ u_prov = <<>>
  /\ CodexIdle
  /\ MainIdle
  /\ ScriptIdle
  /\ CallIdle

\* lines[k], lexed, and lines[k:k+3]
UltimateLineAt(k) == UltimateLex[u_lines[k + 1]]
UltimateWindow(k) ==
  [n \in 1..(IF k + 3 <= Len(u_lines) THEN 3 ELSE Len(u_lines) - k) |-> UltimateLineAt(k + n - 1)]
\* the while loop is at a line that is not blank
UltimateAtLine == u_pc = "loop" /\ u_i < Len(u_lines) /\ UltimateLineAt(u_i).line # <<>>
\* fx_result = self._parse_fx_transaction(lines[i:i+3], card_last4)
UltimateFxAt(k) == _parse_fx_transaction(UltimateWindow(k), u_card_mapping[k + 1], u_now[1])
\* payment = self._parse_payment(line, card_last4, payment_count)
UltimatePaymentOf(k) == _parse_payment(UltimateLineAt(k), u_card_mapping[k + 1], u_now[1])
\* domestic = self._parse_domestic_transaction(line, card_last4)
UltimateDomesticOf(k) ==
  _parse_domestic_transaction(UltimateLineAt(k), u_card_mapping[k + 1], u_now[1])
\* iof = self._parse_iof(line, card_last4)
UltimateIofOf(k) == _parse_iof(UltimateLineAt(k), u_card_mapping[k + 1], u_now)
UltimateStep(unch) ==
  /\ UNCHANGED <<u_lines, u_now, u_pc, u_card_mapping>>
  /\ UNCHANGED unch
  /\ UNCHANGED <<codex_vars, main_vars, script_vars, call_vars>>

UltimateBlank ==
  /\ u_pc = "loop" /\ u_i < Len(u_lines)
  /\ UltimateLineAt(u_i).line = <<>>
  /\ u_i' = u_i + 1
  /\ UltimateStep(<<u_payment_count, u_seen_fx, u_transactions, u_prov>>)

\* "Try FX parsing (multi-line)"
UltimateFx ==
  /\ UltimateAtLine
  /\ \E fx_result \in {UltimateFxAt(u_i)} :
       /\ fx_result.ok
       /\ \E fx_key \in {<<fx_result.desc_raw, fx_result.post_date, fx_result.amount_brl>>} :
            IF fx_key \notin u_seen_fx
            THEN /\ u_seen_fx' = u_seen_fx \cup {fx_key}
                 /\ u_transactions' = Append(u_transactions, fx_result)
                 /\ u_prov' = Append(u_prov, u_i)
            ELSE UNCHANGED <<u_seen_fx, u_transactions, u_prov>>
  /\ u_i' = u_i + 2
  /\ UltimateStep(<<u_payment_count>>)

\* "Try payment parsing"
UltimatePayment ==
  /\ UltimateAtLine
  /\ ~UltimateFxAt(u_i).ok
  /\ \E payment \in {UltimatePaymentOf(u_i)} :
       /\ payment.ok
       /\ IF ~_should_ignore_payment(payment, u_payment_count)
          THEN /\ u_transactions' = Append(u_transactions, payment)
               /\ u_prov' = Append(u_prov, u_i)
          ELSE UNCHANGED <<u_transactions, u_prov>>
  /\ u_payment_count' = u_payment_count + 1
  /\ u_i' = u_i + 1
  /\ UltimateStep(<<u_seen_fx>>)

\* "Try domestic transaction"
UltimateDomestic ==
  /\ UltimateAtLine
  /\ ~UltimateFxAt(u_i).ok
  /\ ~UltimatePaymentOf(u_i).ok
  /\ \E domestic \in {UltimateDomesticOf(u_i)} :
       /\ domestic.ok
       /\ u_transactions' = Append(u_transactions, domestic)
       /\ u_prov' = Append(u_prov, u_i)
  /\ u_i' = u_i + 1
  /\ UltimateStep(<<u_payment_count, u_seen_fx>>)

\* "Try IOF"
UltimateIof ==
  /\ UltimateAtLine
  /\ ~UltimateFxAt(u_i).ok
  /\ ~UltimatePaymentOf(u_i).ok
  /\ ~UltimateDomesticOf(u_i).ok
  /\ \E iof \in {UltimateIofOf(u_i)} :
       /\ iof.ok
       /\ u_transactions' = Append(u_transactions, iof)
       /\ u_prov' = Append(u_prov, u_i)
  /\ u_i' = u_i + 1
  /\ UltimateStep(<<u_payment_count, u_seen_fx>>)

\* no rule takes the line
UltimateSkip ==
  /\ UltimateAtLine
  /\ ~UltimateFxAt(u_i).ok
  /\ ~UltimatePaymentOf(u_i).ok
  /\ ~UltimateDomesticOf(u_i).ok
  /\ ~UltimateIofOf(u_i).ok
  /\ u_i' = u_i + 1
  /\ UltimateStep(<<u_payment_count, u_seen_fx, u_transactions, u_prov>>)

UltimateReturn ==
  /\ u_pc = "loop"
  /\ u_i >= Len(u_lines)
  /\ u_pc' = "done"
  /\ UNCHANGED <<u_lines, u_now, u_i, u_card_mapping, u_payment_count, u_seen_fx,
                 u_transactions, u_prov>>
  /\ UNCHANGED <<codex_vars, main_vars, script_vars, call_vars>>

UltimateNext ==
  \/ UltimateBlank
  \/ UltimateFx
  \/ UltimatePayment
  \/ UltimateDomestic
  \/ UltimateIof
  \/ UltimateSkip
  \/ UltimateReturn

SpecUltimate == UltimateInit /\ [][UltimateNext]_vars

(***************************************************************************)
(* Properties of itau_parser_ultimate.py                                   *)
(***************************************************************************)
\* the transactions that came from line k
UltimateRowsOf(k) == {r \in 1..Len(u_transactions) : u_prov[r] = k}
\* line k is a payment line: the FX rule does not take it and it matches the payment
\* pattern
UltimatePaymentLine(k) ==
  /\ UltimateLineAt(k).line # <<>>
  /\ ~UltimateFxAt(k).ok
  /\ UltimateLineAt(k).payment.ok

\* C9: a payment line whose amount parses as zero or positive never yields a
\* transaction of any category.
C9_NonNegativePaymentDropped ==
  \A k \in 0..(Len(u_lines) - 1) :
    (UltimatePaymentLine(k) /\ _parse_amount(UltimateLineAt(k).payment.amt) >= 0)
      => UltimateRowsOf(k) = {}

(***************************************************************************)
(* script.py: decomma and classify                                         *)
(***************************************************************************)
\* script.decomma of a string: RE_DECIMAL.sub("", x.replace(" ", "")), then the dots
\* removed and the comma made a dot; 0.00 when Decimal() raises
script_decomma(x) ==
  IF x = <<>> THEN 0
  ELSE CentsOf(match(DECIMAL, replace(Only(x, Digit \cup {",", "-"}), ",", ".")))

\* the category tests of script.classify after the priority classifications, in order
script_mapping == <<
  <<<<"F","A","R","M","A","C">>, "FARMÁCIA">>, <<<<"D","R","O","G">>, "FARMÁCIA">>,
  <<<<"S","U","P","E","R","M","E","R","C">>, "SUPERMERCADO">>, <<<<"M","E","R","C","A","D","O">>, "SUPERMERCADO">>,
  <<<<"R","E","S","T","A","U","R">>, "RESTAURANTE">>, <<<<"P","I","Z","Z">>, "RESTAURANTE">>, <<<<"B","A","R">>, "RESTAURANTE">>,
  <<<<"P","O","S","T","O">>, "POSTO">>, <<<<"C","O","M","B","U","S","T">>, "POSTO">>,
  <<<<"U","B","E","R">>, "TRANSPORTE">>, <<<<"T","A","X","I">>, "TRANSPORTE">>,
  <<<<"H","O","T","E","L">>, "TURISMO">>, <<<<"A","E","R","O","P","O","R","T","O">>, "TURISMO">>,
  <<<<"A","P","P","L","E">>, "DIVERSOS">>, <<<<"D","I","S","N","E","Y">>, "DIVERSOS">>, <<<<"N","E","T","F","L","I","X">>, "DIVERSOS">> >>
\* the words of script.classify's "FX detection"
script_fx == {<<"U","S","D">>, <<"E","U","R">>, <<"F","X">>, <<"D","O","L","A","R">>}
ScriptMapped(up, hits) ==
  IF hits # {} THEN script_mapping[Min(hits)][2]
  ELSE IF \E c \in script_fx : Contains(up, c) THEN "FX"
  ELSE "DIVERSOS"
\* script.classify, after up = desc.upper()
ScriptClassified(up, amt) ==
  IF Contains(up, <<"7","1","1","7">>) THEN "PAGAMENTO"
  ELSE IF Contains(up, <<"A","J","U","S","T","E">>) \/ (Abs(amt) < AJUSTE_MAX /\ Abs(amt) > 0) THEN "AJUSTE"
  ELSE IF \E k \in {<<"I","O","F">>, <<"J","U","R","O","S">>, <<"M","U","L","T","A">>} : Contains(up, k) THEN "ENCARGOS"
  ELSE ScriptMapped(up, {k \in DOMAIN script_mapping : Contains(up, script_mapping[k][1])})
script_classify(desc, amt) == ScriptClassified(upper(desc), amt)

(***************************************************************************)
(* Calls of the pure helpers.  An amount is a number of cents; its text is *)
(* in the decimal-comma convention of the statements.                      *)
(***************************************************************************)
DigitChar(d) == CHOOSE c \in Digit : DigitVal(c) = d
RECURSIVE Digits(_)
\* the decimal digits of a natural number
Digits(n) == IF n < 10 THEN <<DigitChar(n)>> ELSE Append(Digits(n \div 10), DigitChar(n % 10))
RECURSIVE Grouped(_)
\* digits with a dot before every group of three: 1234567 is written 1.234.567
Grouped(ds) ==
  IF Len(ds) <= 3 THEN ds
  ELSE Grouped(SubSeq(ds, 1, Len(ds) - 3)) \o <<".">> \o SubSeq(ds, Len(ds) - 2, Len(ds))
\* the text of the amount of n cents, with thousands dots or without
Format(n, dots) ==
  (IF n < 0 THEN <<"-">> ELSE <<>>)
    \o (IF dots THEN Grouped(Digits(Abs(n) \div 100)) ELSE Digits(Abs(n) \div 100))
    \o <<",", DigitChar((Abs(n) % 100) \div 10), DigitChar(Abs(n) % 10)>>

\* the amounts the helpers are called with: every amount up to MaxCents, the amounts
\* around the thousands groups, and their negatives
MaxCents == 130
Thousands == {99999, 100000, 123456, 1000000, 99999999, 100000000, 123456789}
AmountRange == {s * n : s \in {-1, 1}, n \in (0..MaxCents) \cup Thousands}
\* texts that are no amount
Garbage == {<<" ">>, <<"a","b","c">>, <<"-">>, <<",">>, <<"R","$">>, <<"-","-","5",",","0","0">>, <<"1",",","2",",","3">>, <<"1","2","-">>}
\* the strings decomma is called with; "" too
AmountTexts == {Format(n, d) : n \in AmountRange, d \in BOOLEAN} \cup Garbage \cup {<<>>}
\* the descriptions classify is called with
Descriptions ==
  {<<"P","A","D","A","R","I","A">>, <<"P","A","G","A","M","E","N","T","O"," ","7","1","1","7">>, <<"A","J","U","S","T","E"," ","C","R","E","D","I","T","O">>, <<"I","O","F"," ","M","E","R","C","A","D","O">>,
   <<"J","U","R","O","S"," ","7","1","1","7">>, <<"M","u","l","t","a"," ","U","b","e","r">>, <<"m","e","r","c","a","d","o">>, <<"F","A","R","M","A","C","I","A"," ","M","E","R","C","A","D","O">>, <<"U","B","E","R"," ","U","S","D">>,
   <<"U","S","D"," ","S","T","O","R","E">>, <<"D","O","L","A","R">>, <<"N","e","t","f","l","i","x">>, <<"H","O","T","E","L"," ","E","U","R">>}
\* and the amounts, around the adjustment threshold
ClassifyAmounts == {-4590, -31, -30, -29, -1, 0, 1, 29, 30, 31, 4590}

\* script.clean_line: the PUA glyphs removed, the symbols stripped at both ends, the
\* runs of whitespace made one space, and the whitespace at both ends stripped
CLEAN_SYM == {">", BULLET, "*", "®", "«", "»", " ", "@", "_"}
clean_line(txt) ==
  strip(sub(Rep(re_s, 2, Inf), <<" ">>,
            rstrip(lstrip(strip_pua(txt), CLEAN_SYM), CLEAN_SYM)))

\* the raw lines: every text of up to RawMaxLen characters that are a letter, a space,
\* a tab, two of the leading symbols or a PUA glyph
RawAlphabet == {"a", " ", "\t", "@", "_", PUA}
RawMaxLen == 4
RawLines == UNION {[1..n -> RawAlphabet] : n \in 0..RawMaxLen}

InitCall ==
  /\ \/ /\ f_name \in {"enhanced_codex.classify", "script.classify"}
        /\ f_args \in Descriptions \X ClassifyAmounts
     \/ /\ f_name \in {"enhanced_codex.decomma", "script.decomma"}
        /\ f_args \in {<<x>> : x \in AmountTexts}
     \/ /\ f_name \in {"enhanced_codex.clean", "script.clean_line"}
        /\ f_args \in {<<x>> : x \in RawLines}
  /\ f_ret = <<>>
  /\ CodexIdle
  /\ MainIdle
  /\ UltimateIdle
  /\ ScriptIdle

\* the call returns v
Return(v) ==
  /\ f_ret = <<>>
  /\ f_ret' = <<v>>
  /\ UNCHANGED <<f_name, f_args, codex_vars, main_vars, ultimate_vars, script_vars>>
Classify ==
  /\ f_name = "enhanced_codex.classify"
  /\ Return(classify(f_args[1], f_args[2]))
ScriptClassify ==
  /\ f_name = "script.classify"
  /\ Return(script_classify(f_args[1], f_args[2]))
Decomma ==
  /\ f_name = "enhanced_codex.decomma"
  /\ Return(decomma(f_args[1]))
ScriptDecomma ==
  /\ f_name = "script.decomma"
  /\ Return(script_decomma(f_args[1]))
Clean ==
  /\ f_name = "enhanced_codex.clean"
  /\ Return(clean(f_args[1]))
CleanLine ==
  /\ f_name = "script.clean_line"
  /\ Return(clean_line(f_args[1]))

NextCall ==
  \/ Classify
  \/ ScriptClassify
  \/ Decomma
  \/ ScriptDecomma
  \/ Clean
  \/ CleanLine

SpecCall == InitCall /\ [][NextCall]_vars

(***************************************************************************)
(* script.py: the regular expressions of the statement loop.  RE_CARD,     *)
(* RE_BRL and RE_IOF are the patterns of enhanced_codex.py's RE_CARD,      *)
(* RE_BRL and RE_IOF_LINE, and RE_FX_L1 is that of RE_FX_MAIN.             *)
(***************************************************************************)
\* \d{1,2}/\d{1,2}
ShortDate == Cat(<<Rep(re_d, 1, 2), Lit(<<"/">>), Rep(re_d, 1, 2)>>)
script_RE_DATE ==
  Cat(<<Grp("d", Rep(re_d, 1, 2)), Lit(<<"/">>), Grp("m", Rep(re_d, 1, 2)),
        Opt(Cat(<<Lit(<<"/">>), Grp("y", Rep(re_d, 4, 4))>>))>>)
RE_DOMESTIC ==
  Cat(<<Bol, Grp("date", ShortDate), Plus(re_s), Grp("desc", Lazy(Dot, 1, Inf)), Plus(re_s),
        Grp("amt", Money), Eol>>)
RE_PAYMENT ==
  IgnoreCase(Cat(<<Bol, Grp("date", Cat(<<ShortDate, Opt(Cat(<<Lit(<<"/">>), Rep(re_d, 4, 4)>>))>>)),
                   Plus(re_s), Lit(<<"P","A","G","A","M","E","N","T","O">>), Lazy(Dot, 0, Inf), Lit(<<"7","1","1","7">>),
                   Lazy(Dot, 0, Inf),
                   Grp("amt", Cat(<<Opt(Lit(<<"-">>)), Star(re_s), Number>>)), Star(re_s), Eol>>))
RE_DOLLAR_RATE ==
  IgnoreCase(Cat(<<Lit(<<"D">>), Chr({"ó", "o"}), Lit(<<"l","a","r"," ","d","e"," ","C","o","n","v","e","r","s">>), Chr({"ã", "a"}),
                   Lit(<<"o">>), Lazy(Dot, 0, Inf),
                   Grp("g1", Cat(<<Plus(re_d), Lit(<<",">>), Rep(re_d, 4, 4)>>))>>))

(***************************************************************************)
(* script.py: norm_date, calculate_ledger_hash and the block parsers       *)
(***************************************************************************)
\* script.norm_date, after m = RE_DATE.match(raw or ""): f"{int(yr):04}-{int(mth):02}-
\* {int(d):02}" with the reference year when the text has none, "" for no match
ScriptNormDate(m, ref_year) ==
  IF ~m.ok THEN <<>>
  ELSE <<IF group(m, "y") = <<>> THEN ref_year ELSE ToInt(group(m, "y")), ToInt(m.m), ToInt(m.d)>>
script_norm_date(raw, ref_year) == ScriptNormDate(match(script_RE_DATE, raw), ref_year)
\* sha1 of f"{card}|{date}|{desc}|{amount}", the four stripped and desc lower-cased
calculate_ledger_hash(card_last4, post_date, desc_raw, valor_brl) ==
  <<strip(card_last4), post_date, lower(strip(desc_raw)), strip(valor_brl)>>
\* f"{amt:.2f}".replace(".", ",") of an amount in cents
Formatted(amt) == Format(amt, FALSE)

\* the Transaction a block parser returns, by the fields the loop and the
\* deduplication read; date is the temporary field "t.date"
Tx(date, desc, amt, cat, seq, tot, orig, fx_rate, iof) ==
  [post_date |-> <<>>, card_last4 |-> <<>>, desc_raw |-> desc, valor_brl |-> Formatted(amt),
   installment_seq |-> seq, installment_tot |-> tot, valor_orig |-> orig,
   fx_rate |-> fx_rate, iof_brl |-> iof, categoria_high |-> cat, ledger_hash |-> <<>>,
   date |-> date]

\* a cleaned line as the loop and the block parsers see it
ScriptLexText(l) ==
  [text |-> l,
   card |-> search(RE_CARD, l),
   l1   |-> match(RE_FX_MAIN, l),
   rate |-> search(RE_DOLLAR_RATE, l),
   iof  |-> search(RE_IOF_LINE, l).ok,
   brl  |-> search(RE_BRL, l),
   pay  |-> match(RE_PAYMENT, l),
   dom  |-> match(RE_DOMESTIC, l),
   prev |-> PrevKeyword(lower(l))]

\* parse_fx_block: the loop "for j in range(idx + 1, min(idx + 4, len(lines)))" from j
\* on; ls holds the lines as ScriptLexText gives them, idx and j are 0-based
RateHit(ln, fx_rate) == fx_rate = <<>> /\ ln.rate.ok
IofHit(ln, iof) == iof = <<>> /\ ln.iof /\ ln.brl.ok
RECURSIVE FxBlockScan(_, _, _, _, _, _)
FxBlockScan(ls, idx, j, fx_rate, iof, consumed) ==
  IF j >= idx + 4 \/ j >= Len(ls)
  THEN [fx_rate |-> fx_rate, iof |-> iof, consumed |-> consumed]
  ELSE FxBlockScan(ls, idx, j + 1,
         IF RateHit(ls[j + 1], fx_rate) THEN replace(ls[j + 1].rate.g1, ",", ".") ELSE fx_rate,
         IF IofHit(ls[j + 1], iof) THEN ls[j + 1].brl.g0 ELSE iof,
         IF RateHit(ls[j + 1], fx_rate) \/ IofHit(ls[j + 1], iof) THEN j - idx + 1
         ELSE consumed)
\* a parse_fx_block that would return its transaction with consumed = 0: the variant
\* the advance of the cursor is checked against
FxBlockWithoutAdvance(m1, scan) ==
  IF ~m1.ok THEN [ok |-> FALSE, consumed |-> 0]
  ELSE [ok |-> TRUE, consumed |-> 0,
        tx |-> Tx(m1.date, m1.descr, script_decomma(m1.brl), "FX", <<>>, <<>>,
                  Formatted(script_decomma(m1.orig)), <<>>, <<>>)]
\* parse_fx_block, after m1 = RE_FX_L1.match(l1) and the loop
FxBlock(m1, scan) ==
  IF ~m1.ok THEN [ok |-> FALSE, consumed |-> 0]
  ELSE [ok |-> TRUE, consumed |-> scan.consumed,
        tx |-> Tx(m1.date, m1.descr, script_decomma(m1.brl), "FX", <<>>, <<>>,
                  Formatted(script_decomma(m1.orig)),
                  replace(scan.fx_rate, ".", ","), replace(scan.iof, ".", ","))]
parse_fx_block(ls, idx) ==
  IF idx >= Len(ls) - 1 THEN [ok |-> FALSE, consumed |-> 0]
  ELSE FxBlock(ls[idx + 1].l1, FxBlockScan(ls, idx, idx + 1, <<>>, <<>>, 1))

\* parse_payment_line, after mp = RE_PAYMENT.match(l)
parse_payment_line(mp) ==
  Tx(mp.date, <<"P","A","G","A","M","E","N","T","O">>, script_decomma(mp.amt), "PAGAMENTO", <<>>, <<>>, <<>>, <<>>, <<>>)
\* parse_domestic_line, after md = RE_DOMESTIC.match(l) and
\* ins_match = re.search(r"(\d{1,2})/(\d{1,2})", desc)
DomesticTx(md, ins_match) ==
  Tx(md.date, md.desc, script_decomma(md.amt), script_classify(md.desc, script_decomma(md.amt)),
     group(ins_match, "g1"), group(ins_match, "g2"), <<>>, <<>>, <<>>)
parse_domestic_line(md) == DomesticTx(md, search(RE_INST, md.desc))

(***************************************************************************)
(* script.py: load_lines and parse_statement                               *)
(***************************************************************************)
ScriptLineSet ==
  {"10/04 AMAZON 10,00 52,34", "Dolar de Conversao R$ 5,2340", "Repasse de IOF 1,20",
   "@15/04 PADARIA  45,90", "20/04 PAGAMENTO 7117 -300,00", "CARTAO final 5678",
   "Juros de mora 3,00", ""}
\* the lines both parsers read, in the specification of the two loops
LoopLineSet ==
  ScriptLineSet \cup {"16/04 LOJA 05/03 10,00 80,00", "Lançamentos no cartão (final 5678)"}
\* the longest statements
ScriptMaxLines == 4
LoopMaxLines == 3
ScriptStatements == UNION {[1..n -> ScriptLineSet] : n \in 0..ScriptMaxLines}
LoopStatements == UNION {[1..n -> LoopLineSet] : n \in 0..LoopMaxLines}
\* lines[k] for the line named l: clean_line of its text, matched
ScriptLex == TableOn([l \in LoopLineSet |-> ScriptLexText(clean_line(AllChars[l]))], LoopLineSet)

\* load_lines of a text file: "[clean_line(l) for l in ... if l]"
load_lines(ls) == SelectSeq(ls, LAMBDA l : AllChars[l] # <<>>)
\* the locals of parse_statement when its loop starts
ScriptStarted(ls, ry) ==
  /\ s_lines = load_lines(ls)
  /\ s_ref_year = ry
  /\ s_pc = "loop"
  /\ s_i = 0
  /\ s_card_last4 = <<"0","0","0","0">>
  /\ s_pagamento_idx = 0
  /\ s_txs = <<>>
  /\ s_prov = <<>>

InitScript ==
  /\ \E ls \in ScriptStatements, ry \in RefYears : ScriptStarted(ls, ry)
  /\ CodexIdle
  /\ MainIdle
  /\ UltimateIdle
  /\ CallIdle

\* lines, each as ScriptLexText gives it; lines[k] for a 0-based k
ScriptLines == [k \in 1..Len(s_lines) |-> ScriptLex[s_lines[k]]]
ScriptLineAt(k) == ScriptLex[s_lines[k + 1]]
ScriptInLoop == s_pc = "loop" /\ s_i < Len(s_lines)
\* "enrich & finalise"
Enriched(tx, card_last4, post_date) ==
  [tx EXCEPT !.card_last4 = card_last4, !.post_date = post_date,
             !.ledger_hash = calculate_ledger_hash(card_last4, post_date, tx.desc_raw,
                                                   tx.valor_brl)]
\* "txs.append(tx)" after the enrichment, for the transaction of line s_i
ScriptAppend(tx) ==
  /\ s_txs' = Append(s_txs, Enriched(tx, s_card_last4, script_norm_date(tx.date, s_ref_year)))
  /\ s_prov' = Append(s_prov, s_i)
ScriptStep(unch) ==
  /\ UNCHANGED <<s_lines, s_ref_year, s_pc>>
  /\ UNCHANGED unch
  /\ UNCHANGED <<codex_vars, main_vars, ultimate_vars, call_vars>>

\* "card header capture"
ScriptCardHeader ==
  /\ ScriptInLoop
  /\ \E l \in {ScriptLineAt(s_i)} :
       /\ l.card.ok
       /\ s_card_last4' = l.card.g1
  /\ s_i' = s_i + 1
  /\ ScriptStep(<<s_pagamento_idx, s_txs, s_prov>>)

\* "FX block (priority)"
ScriptFxBlock ==
  /\ ScriptInLoop
  /\ ~ScriptLineAt(s_i).card.ok
  /\ \E fx \in {parse_fx_block(ScriptLines, s_i)} :
       /\ fx.ok
       /\ s_i' = s_i + fx.consumed
       /\ ScriptAppend(fx.tx)
  /\ ScriptStep(<<s_card_last4, s_pagamento_idx>>)

\* "payment"
ScriptPayment ==
  /\ ScriptInLoop
  /\ \E l \in {ScriptLineAt(s_i)} :
       /\ ~l.card.ok
       /\ ~parse_fx_block(ScriptLines, s_i).ok
       /\ l.pay.ok
       /\ IF s_pagamento_idx = 0 \/ l.prev
          THEN UNCHANGED <<s_txs, s_prov>>
          ELSE ScriptAppend(parse_payment_line(l.pay))
  /\ s_pagamento_idx' = s_pagamento_idx + 1
  /\ s_i' = s_i + 1
  /\ ScriptStep(<<s_card_last4>>)

\* "domestic / fallback"
ScriptDomestic ==
  /\ ScriptInLoop
  /\ \E l \in {ScriptLineAt(s_i)} :
       /\ ~l.card.ok
       /\ ~parse_fx_block(ScriptLines, s_i).ok
       /\ ~l.pay.ok
       /\ l.dom.ok
       /\ ScriptAppend(parse_domestic_line(l.dom))
  /\ s_i' = s_i + 1
  /\ ScriptStep(<<s_card_last4, s_pagamento_idx>>)

\* "UNKNOWN line"
ScriptUnmatched ==
  /\ ScriptInLoop
  /\ \E l \in {ScriptLineAt(s_i)} :
       /\ ~l.card.ok
       /\ ~parse_fx_block(ScriptLines, s_i).ok
       /\ ~l.pay.ok
       /\ ~l.dom.ok
  /\ s_i' = s_i + 1
  /\ ScriptStep(<<s_card_last4, s_pagamento_idx, s_txs, s_prov>>)

\* "deduplicate": the first transaction of every ledger_hash, in order
FirstOfHash(txs) == {k \in 1..Len(txs) : \A j \in 1..(k - 1) : txs[j].ledger_hash # txs[k].ledger_hash}
RECURSIVE Unique(_, _, _)
\* the elements of xs at the positions where txs has the first of a hash
Unique(xs, txs, k) ==
  IF k > Len(txs) THEN <<>>
  ELSE (IF k \in FirstOfHash(txs) THEN <<xs[k]>> ELSE <<>>) \o Unique(xs, txs, k + 1)
ScriptReturn ==
  /\ s_pc = "loop"
  /\ s_i >= Len(s_lines)
  /\ s_txs' = Unique(s_txs, s_txs, 1)
  /\ s_prov' = Unique(s_prov, s_txs, 1)
  /\ s_pc' = "done"
  /\ UNCHANGED <<s_lines, s_ref_year, s_i, s_card_last4, s_pagamento_idx>>
  /\ UNCHANGED <<codex_vars, main_vars, ultimate_vars, call_vars>>

ScriptNext ==
  \/ ScriptCardHeader
  \/ ScriptFxBlock
  \/ ScriptPayment
  \/ ScriptDomestic
  \/ ScriptUnmatched
  \/ ScriptReturn

SpecScript == InitScript /\ [][ScriptNext]_vars

(***************************************************************************)
(* The two loops.  enhanced_codex.parse_txt and script.parse_statement     *)
(* each read the same statement; they are two programs and share nothing,  *)
(* so their steps come in any order.  Each is sequential code that takes   *)
(* its next step whenever it has one: weak fairness of each loop.  While   *)
(* pc = "loop" a step is there and changes the state, a branch of the      *)
(* if/elif chain that moves the cursor or the return after the last line,  *)
(* so that ENABLED <<Next>>_vars is pc = "loop" until the loop is left;     *)
(* weak fairness, []<>(~ENABLED <<Next>>_vars) \/ []<><<Next>>_vars, is     *)
(* written with that state predicate.  The same holds for ScriptNext.      *)
(***************************************************************************)
InitLoops ==
  /\ \E ls \in LoopStatements, ry \in RefYears, rm \in RefMonths :
       /\ Started(ParseStart(ls, ry, rm))
       /\ ScriptStarted(ls, ry)
  /\ total = NoStats
  /\ phase = "single"
  /\ alone = <<>>
  /\ parked = <<>>
  /\ UltimateIdle
  /\ CallIdle

NextLoops ==
  \/ Next
  \/ ScriptNext

LoopFairness == []<>(pc # "loop") \/ []<><<Next>>_vars
ScriptLoopFairness == []<>(s_pc # "loop") \/ []<><<ScriptNext>>_vars
SpecLoops == InitLoops /\ [][NextLoops]_vars /\ LoopFairness /\ ScriptLoopFairness

(***************************************************************************)
(* Properties of enhanced_codex.py                                         *)
(***************************************************************************)
Done == pc # "loop"
LineNos == 0..(Len(lines) - 1)
\* the rows that came from line k
RowsOf(k) == {r \in 1..Len(rows) : prov[r] = k}
IofOf(k) == {r \in 1..Len(iof_postings) : iof_prov[r] = k}

\* line k has the shape of an FX main line: date, description, two monetary fields
FxShaped(k) == LineAt(k).fx_main.ok
\* the lines of k's window (up to two) that are conversion-rate lines
RateLines(k) == {j \in {k + 1, k + 2} : j < Len(lines) /\ LineAt(j).dolar.ok}
\* line k starts an FX cluster: an FX main line with a rate line in its window
FxStart(k) == Posting(LineAt(k)) /\ FxShaped(k) /\ RateLines(k) # {}
\* the lines an FX cluster at k is made of: the main line and the lines up to its rate
\* line, and the third line too when that is an IOF line or a rate line
ClusterSpan(k) ==
  IF k + 2 < Len(lines) /\ (LineAt(k + 2).dolar.ok \/ LineAt(k + 2).iof_line) THEN 3 ELSE 2
\* the lines that are classified on their own, from line k on: every line but the
\* trailing lines of the FX clusters
RECURSIVE OwnLines(_)
OwnLines(k) ==
  IF k >= Len(lines) THEN {}
  ELSE {k} \cup OwnLines(k + (IF FxStart(k) THEN ClusterSpan(k) ELSE 1))

\* line k is a payment line: a line classified on its own that, by the order of the
\* rules, is not a header, a card header or an FX start and matches the payment pattern
PaymentAt(k) == Posting(LineAt(k)) /\ ~FxStart(k) /\ LineAt(k).mp.ok
PaymentLines == {k \in OwnLines(0) : PaymentAt(k)}
PayAmount(k) == decomma(LineAt(k).mp.amt)
HasPrevKeyword(k) == is_prev_bill_payoff(LineAt(k).text, 1)

\* C1: the first payment line of a statement is never emitted; a later payment line is
\* emitted, as PAGAMENTO with its parsed amount, exactly when its amount is negative
\* and its text has no previous-cycle keyword.
C1_LaterPaymentsEmitted ==
  Done =>
    \A k \in PaymentLines :
      IF k # Min(PaymentLines) /\ PayAmount(k) < 0 /\ ~HasPrevKeyword(k)
      THEN \E r \in RowsOf(k) :
             /\ rows[r].desc_raw = <<"P","A","G","A","M","E","N","T","O">>
             /\ rows[r].categoria_high = "PAGAMENTO"
             /\ rows[r].valor_brl = PayAmount(k)
      ELSE RowsOf(k) = {}

\* the step emits line i as a domestic row with the last monetary field as its amount
DomesticFallback ==
  /\ i' = i + 1
  /\ Len(rows') = Len(rows) + 1
  /\ SubSeq(rows', 1, Len(rows)) = rows
  /\ prov' = Append(prov, i)
  /\ rows'[Len(rows')].valor_brl = decomma(LineAt(i).fx_main.brl)
  /\ rows'[Len(rows')].desc_raw = LineAt(i).dom.desc
  /\ rows'[Len(rows')].fx_rate = <<>>
  /\ rows'[Len(rows')].valor_orig = <<>>

FxLines == {k \in OwnLines(0) : FxStart(k)}
\* the IOF lines, with an amount, in k's window
IofLines(k) ==
  {j \in {k + 1, k + 2} : j < Len(lines) /\ LineAt(j).iof_line /\ LineAt(j).brl.ok}
\* no earlier FX main line carries the same dedup key
KeyNew(k) == \A k2 \in FxLines : k2 < k => LineAt(k2).fx_main # LineAt(k).fx_main

\* C3: an FX main line with a rate line at either of the next two positions yields
\* exactly one transaction (when its key is new): category FX, amounts from the main
\* line, rate from the rate line, IOF from an IOF line of the window or zero.
C3_FxClusterOneTransaction ==
  Done =>
    \A k \in FxLines :
      KeyNew(k) =>
        /\ Cardinality(RowsOf(k)) = 1
        /\ \A r \in RowsOf(k) :
             /\ rows[r].categoria_high = "FX"
             /\ rows[r].valor_orig = <<decomma(LineAt(k).fx_main.orig)>>
             /\ rows[r].valor_brl = decomma(LineAt(k).fx_main.brl)
             /\ \E j \in RateLines(k) : rows[r].fx_rate = <<RateValue(LineAt(j).dolar.g1)>>
             /\ IF IofLines(k) = {} THEN rows[r].iof_brl = <<0>>
                ELSE \E j \in IofLines(k) : rows[r].iof_brl = <<decomma(LineAt(j).brl.g0)>>

\* C4 (enhanced_codex): every emitted FX transaction carries an fx_rate read from a
\* conversion-rate line inside its own window; FX is never assigned without a rate.
C4_FxHasRate ==
  Done =>
    \A r \in 1..Len(rows) :
      rows[r].categoria_high = "FX" =>
        \E j \in RateLines(prov[r]) : rows[r].fx_rate = <<RateValue(LineAt(j).dolar.g1)>>

\* C5: the rows written for one statement have pairwise distinct ledger_hash values.
C5_LedgerHashDistinct ==
  pc = "written" =>
    \A a, b \in 1..Len(csv) : a # b => csv[a].ledger_hash # csv[b].ledger_hash

\* the card a row of line k must carry: the digits of the last line, at or before k,
\* with a "final NNNN" marker, and "0000" when there is none
ExpectedCard(k) ==
  LET ms == {j \in 0..k : LineAt(j).card.ok}
  IN IF ms = {} THEN <<"0","0","0","0">> ELSE LineAt(MaxOf(ms)).card.g1

\* C6: card_last4 of every emitted transaction is the four digits of the most recent
\* line, at or before its own, that contains a "final NNNN" marker, else "0000".
C6_CardMostRecentMarker ==
  Done => \A r \in 1..Len(rows) : rows[r].card_last4 = ExpectedCard(prov[r])

\* C7: installment_seq and installment_tot of every emitted transaction are both
\* absent, or both present and positive with seq <= tot.
C7_InstallmentsWellFormed ==
  Done =>
    \A r \in 1..Len(rows) :
      LET s == rows[r].installment_seq
          t == rows[r].installment_tot
      IN \/ s = <<>> /\ t = <<>>
         \/ /\ s # <<>> /\ t # <<>>
            /\ s[1] >= 1 /\ t[1] >= 1 /\ s[1] <= t[1]

\* C8: a payment line whose amount parses as zero or positive never yields a
\* transaction: no row and no IOF posting ever comes from it.
C8_NonNegativePaymentDropped ==
  \A k \in PaymentLines : PayAmount(k) >= 0 => RowsOf(k) = {} /\ IofOf(k) = {}

\* a later payment line with a non-negative amount and no previous-cycle keyword was
\* reached by the cursor (no FX-shaped line precedes it) and the statement is parsed
C8_Witness ==
  /\ pc = "parsed"
  /\ \E k \in PaymentLines :
       /\ PayAmount(k) >= 0 /\ ~HasPrevKeyword(k)
       /\ k # Min(PaymentLines)
       /\ \A j \in 0..k : ~FxShaped(j)
       /\ pagamento_seq >= 1

\* C10: after any prefix of the lines, pagamento_seq is the number of payment lines
\* in that prefix, suppressed, rejected or emitted.
C10_CounterCountsPaymentLines ==
  pagamento_seq = Cardinality({k \in PaymentLines : k < i})


\* the rows of standalone IOF and interest lines: those whose line carries no date
Standalone == {r \in 1..Len(rows) : ~LineAt(prov[r]).date.ok}
\* the domestic and FX rows emitted from the lines before line k
DatedBefore(k) ==
  {q \in 1..Len(rows) :
     prov[q] < k /\ LineAt(prov[q]).date.ok /\ rows[q].categoria_high # "PAGAMENTO"}
\* the one of the rows qs that came from the latest line
Latest(qs) == CHOOSE q \in qs : \A p \in qs : prov[p] <= prov[q]

\* C11: a standalone IOF or interest transaction is dated with the date of the most
\* recent domestic or FX transaction emitted before its line: not with a payment's
\* date, and not with an older domestic one when an FX transaction came in between.
C11_StandaloneDatedByLatest ==
  Done =>
    \A r \in Standalone :
      DatedBefore(prov[r]) # {} =>
        rows[r].post_date = rows[Latest(DatedBefore(prov[r]))].post_date

\* the rows of category cat
RowsIn(cat) == {r \in 1..Len(rows) : rows[r].categoria_high = cat}

\* C12: an IOF or interest line with no earlier date is discarded: every standalone
\* row has a dated row emitted from an earlier line, and the iof and encargos counters
\* count only the postings that are in the output.
C12_UndatedDiscardedUncounted ==
  Done =>
    /\ \A r \in Standalone :
         \E q \in 1..Len(rows) : prov[q] < prov[r] /\ LineAt(prov[q]).date.ok
    /\ stats["iof"] = Cardinality(RowsIn("IOF"))
    /\ stats["encargos"] = Cardinality(RowsIn("ENCARGOS"))

\* C18: no emitted transaction has a post_date that is not a real calendar date: a
\* date text with month 13, day 0 or day 32 gives no transaction.
C18_PostDatesReal ==
  Done =>
    \A r \in 1..Len(rows) :
      /\ Len(rows[r].post_date) = 3
      /\ IsDate(rows[r].post_date[1], rows[r].post_date[2], rows[r].post_date[3])

\* the line under the cursor is of none of the kinds that are allowed to be silent: it
\* is not blank, a dropped header or a card header, starts no FX window, is no payment
\* line and no domestic line with an out-of-cycle installment
MustAccount ==
  /\ InLoop
  /\ Posting(LineAt(i))
  /\ ~FxTry(Window(i)).res.ok
  /\ ~LineAt(i).mp.ok
  /\ ~(LineAt(i).dom.ok /\ OutOfCycle(Installment(LineAt(i).dom.desc)))
\* the step adds no row that reaches the output: none, or one without a date, which the
\* final filter drops
NothingEmitted ==
  /\ Len(rows') = Len(rows) \/ ~Kept(rows'[Len(rows')])
  /\ Len(iof_postings') = Len(iof_postings) \/ ~Kept(iof_postings'[Len(iof_postings')])

\* C20: a line that produces no transaction and is not blank, a dropped header, a card
\* header, part of a consumed FX window, a suppressed or rejected payment or a
\* rejected installment increments regex_miss by exactly one.
C20_SilentLinesCounted ==
  [][(MustAccount /\ NothingEmitted) => stats'["regex_miss"] = stats["regex_miss"] + 1]_vars

(***************************************************************************)
(* Properties of classify and decomma, of enhanced_codex.py and script.py  *)
(***************************************************************************)
\* a call of one of the two classify functions has returned
ClassifyReturned == f_name \in {"enhanced_codex.classify", "script.classify"} /\ f_ret # <<>>
\* a call of one of the two decomma functions has returned
DecommaReturned == f_name \in {"enhanced_codex.decomma", "script.decomma"} /\ f_ret # <<>>
\* the merchant keyword table and the currency words of the function called
TableOf(fname) == IF fname = "script.classify" THEN script_mapping ELSE mapping
CurrencyOf(fname) == IF fname = "script.classify" THEN script_fx ELSE {<<"U","S","D">>, <<"E","U","R">>, <<"F","X">>}
\* the rules of the categorizer on the upper-cased description u
PaymentMarker(u) == Contains(u, <<"7","1","1","7">>)
AdjustKeyword(u) == Contains(u, <<"A","J","U","S","T","E">>)
SmallAmount(amt) == 0 < Abs(amt) /\ Abs(amt) <= 30
ChargeKeyword(u) == Contains(u, <<"I","O","F">>) \/ Contains(u, <<"J","U","R","O","S">>) \/ Contains(u, <<"M","U","L","T","A">>)
MerchantHits(tbl, u) == {k \in DOMAIN tbl : Contains(u, tbl[k][1])}
\* the label of the first rule that matches, in the fixed order
FirstRule(fname, u, amt) ==
  IF PaymentMarker(u) THEN "PAGAMENTO"
  ELSE IF AdjustKeyword(u) \/ SmallAmount(amt) THEN "AJUSTE"
  ELSE IF ChargeKeyword(u) THEN "ENCARGOS"
  ELSE IF MerchantHits(TableOf(fname), u) # {}
       THEN TableOf(fname)[Min(MerchantHits(TableOf(fname), u))][2]
  ELSE IF \E c \in CurrencyOf(fname) : Contains(u, c) THEN "FX"
  ELSE "DIVERSOS"

\* C13: classify returns the label of the first rule that matches in the order payment
\* marker, AJUSTE keyword or small amount, IOF/interest keyword, merchant keyword
\* table, currency code, default DIVERSOS.
C13_FirstMatchingRule ==
  ClassifyReturned => f_ret[1] = FirstRule(f_name, upper(f_args[1]), f_args[2])

\* C14: for a description without the payment marker, both categorizers return AJUSTE
\* whenever 0 < |amount| <= 0.30, the boundary included, and never return AJUSTE on
\* the amount criterion when the amount is 0 or |amount| >= 0.31.
C14_AdjustmentBand ==
  (ClassifyReturned /\ ~PaymentMarker(upper(f_args[1]))) =>
    /\ SmallAmount(f_args[2]) => f_ret[1] = "AJUSTE"
    /\ (~SmallAmount(f_args[2]) /\ ~AdjustKeyword(upper(f_args[1]))) => f_ret[1] # "AJUSTE"

\* the text is not blank and has no digit: it cannot be parsed as an amount
NoAmount(x) == strip(x) # <<>> /\ \A k \in DOMAIN x : x[k] \notin Digit
\* what the function called returns for the text x
Parsed(fname, x) == IF fname = "script.decomma" THEN script_decomma(x) ELSE decomma(x)

\* C17: on a string that cannot be parsed as an amount, decomma returns something the
\* caller can tell apart from what it returns for a successfully parsed zero amount.
C17_FailureDistinguishable ==
  (DecommaReturned /\ NoAmount(f_args[1])) => f_ret[1] # Parsed(f_name, <<"0",",","0","0">>)

\* C19: for an amount of the range written in the decimal-comma convention, with or
\* without thousands dots and with an optional leading minus, decomma returns exactly
\* that amount, and the result formatted back and parsed again is the same amount.
C19_AmountRoundTrip ==
  DecommaReturned =>
    \A n \in AmountRange, d \in BOOLEAN :
      f_args[1] = Format(n, d) =>
        /\ f_ret[1] = n
        /\ \A e \in BOOLEAN : Parsed(f_name, Format(f_ret[1], e)) = n
\* a negative amount above a thousand, written with its dots, has been parsed
C19_Witness ==
  /\ f_name = "script.decomma"
  /\ f_args = <<<<"-","1",".","2","3","4",".","5","6","7",",","8","9">>>>
  /\ f_ret = <<-123456789>>

(***************************************************************************)
(* Properties of enhanced_codex.py across statements                       *)
(***************************************************************************)
\* the activation that runs is the second parse of the first statement, returned
ParsedAgain == phase = "pair" /\ pc \in {"parsed", "written"} /\ lines = alone.lines

\* C15: parse_txt run twice on the same lines with the same reference year and month
\* returns the same transaction list both times: same length, same order, same field
\* values, same ledger hashes.
C15_ParseRepeatable ==
  ParsedAgain =>
    /\ Len(rows) = Len(alone.rows)
    /\ \A r \in 1..Len(rows) : rows[r] = alone.rows[r]
\* the second parse of a statement has returned a transaction, before any step of the
\* other statement
C15_Witness ==
  /\ ParsedAgain
  /\ Len(rows) >= 1
  /\ parked.pc = "loop" /\ parked.i = 0

\* what main has of a statement once its file is written
Outcome(f) == [csv |-> f.csv, stats |-> f.stats, dupes |-> f.dupes]

\* C16: a statement parsed next to another one, before it, after it or with the loop
\* steps of the two interleaved, gives exactly the transaction list and the counters it
\* gives when parsed alone.
C16_StatementsIndependent ==
  phase = "pair" =>
    /\ (pc = "written" /\ lines = alone.lines) => Outcome(Frame) = Outcome(alone)
    /\ (parked.pc = "written" /\ parked.lines = alone.lines) => Outcome(parked) = Outcome(alone)
\* both statements are written; the other one set a card context and counted a payment,
\* the first statement has a transaction on the default card
C16_Witness ==
  /\ phase = "pair"
  /\ pc = "written" /\ lines = alone.lines
  /\ parked.pc = "written"
  /\ parked.card # <<"0","0","0","0">> /\ parked.pagamento_seq >= 1
  /\ Len(csv) >= 1 /\ card = <<"0","0","0","0">>

(***************************************************************************)
(* Properties of enhanced_codex.py: fields, frames and order               *)
(***************************************************************************)
\* an optional amount that is zero or empty
ZeroOrEmpty(v) == v = <<>> \/ v = <<0>>

\* C21: every emitted transaction whose category is not FX has fx_rate, iof_brl and
\* amount_orig zero or empty; the three are populated only on FX transactions.
C21_FxFieldsOnlyOnFx ==
  Done =>
    \A r \in 1..Len(rows) :
      rows[r].categoria_high # "FX" =>
        /\ ZeroOrEmpty(rows[r].fx_rate)
        /\ ZeroOrEmpty(rows[r].iof_brl)
        /\ ZeroOrEmpty(rows[r].valor_orig)

\* line k is handled as a card header: not a dropped header, not blank, and with a
\* "final NNNN" marker
CardHeaderAt(k) == \E ln \in {LineAt(k)} : ~ln.drop /\ ln.text # <<>> /\ ln.card.ok

\* C26: a line handled as a card header changes only the current card and the cursor,
\* by exactly one: no transaction, and the payment counter, the last-date register,
\* the seen FX keys, the pending IOF postings and every counter stay as they were.
C26_CardHeaderFrame ==
  [][(InLoop /\ CardHeaderAt(i)) =>
       /\ i' = i + 1
       /\ card' = LineAt(i).card.g1
       /\ UNCHANGED <<rows, prov, iof_postings, iof_prov, last_date, pagamento_seq,
                      seen_fx, stats, lines, pc>>]_vars

\* a card header was handled after a posting: the card is the header's, and the row,
\* the register and the counters are those the posting left
C26_Witness ==
  /\ pc = "loop"
  /\ i = 2
  /\ Len(rows) = 1
  /\ last_date # <<>>
  /\ CardHeaderAt(1)
  /\ card = LineAt(1).card.g1
  /\ rows[1].card_last4 = <<"0","0","0","0">>

\* C27 (as stated): when the rate line immediately follows the FX main line and the
\* line after it is neither an IOF line nor a rate line, the cluster does not consume
\* that third line: the cursor advances by two.
C27_ThirdLineNotConsumed ==
  [][(/\ InLoop
      /\ i + 2 < Len(lines)
      /\ Posting(LineAt(i)) /\ FxShaped(i)
      /\ LineAt(i + 1).dolar.ok
      /\ ~LineAt(i + 2).iof_line /\ ~LineAt(i + 2).dolar.ok)
     => i' = i + 2]_vars

\* C29: the returned transactions are in source-line order: of any two, the one
\* produced by the earlier line comes first.
C29_SourceLineOrder ==
  Done => \A a, b \in 1..Len(rows) : a < b => prov[a] <= prov[b]

\* line k reaches the domestic rule and matches it
DomesticAt(k) ==
  \E w \in {Window(k)} :
    Posting(w[1]) /\ ~FxTry(w).res.ok /\ ~w[1].mp.ok /\ w[1].date.ok /\ w[1].dom.ok
\* the installment the domestic rule reads in the description of line k
InstallmentAt(k) == Installment(LineAt(k).dom.desc)
\* both numbers of the installment are present and seq > tot
SeqAboveTot(ins) == ins.seq # <<>> /\ ins.tot # <<>> /\ ins.seq[1] > ins.tot[1]

\* C22: a domestic line whose description carries an installment with both numbers
\* present and seq > tot is rejected as a whole: no transaction, the last-date register
\* and every counter unchanged, and the cursor advanced by exactly one line.
C22_OutOfCycleRejected ==
  [][(InLoop /\ DomesticAt(i) /\ SeqAboveTot(InstallmentAt(i))) =>
       /\ i' = i + 1
       /\ UNCHANGED <<rows, prov, iof_postings, last_date, stats>>]_vars

\* the rows of FX clusters: category FX, with a rate
FxRows == {r \in 1..Len(rows) : rows[r].categoria_high = "FX" /\ rows[r].fx_rate # <<>>}
\* (description, date, amount_brl, amount_orig, rate) of a row
RowKey(r) == <<r.desc_raw, r.post_date, r.valor_brl, r.valor_orig, r.fx_rate>>
\* the lines at k make an FX cluster, and the transaction of that cluster
ClusterAt(k) == Posting(LineAt(k)) /\ FxTry(Window(k)).res.ok
ClusterRow(k) ==
  LET res == FxTry(Window(k)).res
  IN build(card, res.date, res.descr, res.valor_brl, "FX", ref_y, ref_m,
           [valor_orig |-> <<res.valor_orig>>, fx_rate |-> <<res.fx_rate>>,
            iof_brl |-> <<res.iof>>])
\* the key of the cluster at k is the key of a row of the result
KeySeen(k) == \E r \in FxRows : RowKey(rows[r]) = RowKey(ClusterRow(k))

\* C23: the FX-cluster transactions of the result have pairwise distinct keys
\* (description, date, amount_brl, amount_orig, rate); a cluster whose key was already
\* seen adds no row and does not increase the FX counter, and the cursor still advances
\* past every line of its window.
C23_FxKeysDistinct ==
  /\ [](\A a, b \in FxRows : a # b => RowKey(rows[a]) # RowKey(rows[b]))
  /\ [][(InLoop /\ ClusterAt(i) /\ KeySeen(i)) =>
          /\ UNCHANGED <<rows, prov, stats>>
          /\ i' = i + Len(Window(i))]_vars
\* a statement of five lines is parsed in which the cluster of the first three lines
\* comes again in the last two: one FX row, counted once
C23_Witness ==
  /\ pc = "parsed"
  /\ Len(lines) = 5
  /\ FxShaped(0) /\ LineAt(1).dolar.ok /\ LineAt(2).iof_line
  /\ LineAt(3) = LineAt(0) /\ LineAt(4).dolar.ok
  /\ Cardinality(FxRows) = 1
  /\ stats["fx"] = 1

\* C28: the FX duplicate check drops a cluster only when a transaction with the same
\* ledger_hash (same card, date, description, amount, installment total and category)
\* is already in the result; the same purchase under two card headers is emitted once
\* for each card.
C28_DropOnlySameLedgerHash ==
  [][(InLoop /\ ClusterAt(i) /\ rows' = rows) =>
       \E r \in 1..Len(rows) : rows[r].ledger_hash = ClusterRow(i).ledger_hash]_vars

(***************************************************************************)
(* Properties of line normalization                                        *)
(***************************************************************************)
CleanReturned == f_name \in {"enhanced_codex.clean", "script.clean_line"} /\ f_ret # <<>>
\* the normalization the call made, and the symbols it strips
Cleaned(fname, x) == IF fname = "script.clean_line" THEN clean_line(x) ELSE clean(x)
LeadSymOf(fname) == IF fname = "script.clean_line" THEN CLEAN_SYM ELSE LEAD_SYM

\* C30: line normalization is idempotent and its output canonical: for every raw line
\* over letters, space, tab, leading symbols and PUA glyphs, normalizing the result
\* again gives the result, which never begins with a leading symbol.
C30_CleanIdempotent ==
  CleanReturned =>
    /\ Cleaned(f_name, f_ret[1]) = f_ret[1]
    /\ f_ret[1] # <<>> => f_ret[1][1] \notin LeadSymOf(f_name)

(***************************************************************************)
(* Properties of the loops of enhanced_codex.py and script.py              *)
(***************************************************************************)
\* C24: the main loops of parse_txt and parse_statement terminate: every iteration
\* advances the cursor by at least one line and the cursor never decreases, so no line
\* is the start of a match more than once.
C24_LoopsTerminate ==
  /\ [][/\ i' >= i
        /\ s_i' >= s_i
        /\ (InLoop /\ codex_vars' # codex_vars) => i' > i
        /\ (ScriptInLoop /\ script_vars' # script_vars) => s_i' > s_i]_vars
  /\ <>(pc # "loop" /\ s_pc # "loop")
\* both loops are over on a statement of three lines that starts with an FX cluster,
\* which each of them took in one iteration
C24_Witness ==
  /\ pc = "parsed" /\ s_pc = "done"
  /\ Len(lines) = 3 /\ i = 3
  /\ Len(s_lines) = 3 /\ s_i = 3
  /\ FxShaped(0) /\ RateLines(0) # {}
  /\ Len(rows) = 1 /\ prov = <<0>>
  /\ Len(s_txs) = 1 /\ s_prov = <<0>>

\* C25: in parse_statement a successful FX match consumes at most three lines, the main
\* line and at most the next two, and every consumed line after the main line is the
\* cluster's rate line or IOF line: no line between the main line and a later rate or
\* IOF line is skipped.
C25_FxBlockConsumesItsLines ==
  [][(ScriptInLoop /\ ~ScriptLineAt(s_i).card.ok /\ parse_fx_block(ScriptLines, s_i).ok) =>
       /\ s_i' <= s_i + 3
       /\ \A k \in (s_i + 1)..(s_i' - 1) :
            ScriptLineAt(k).rate.ok \/ ScriptLineAt(k).iof]_vars

====
